---- MODULE Spec2Model ----
(***************************************************************************)
(* A model of the devdocs-adapter download pipeline (src/src/downloader.ts) *)
(* as a single-threaded event loop: one Downloader instance whose fields    *)
(* are shared by every _download task, asynchronous tasks that are resumed  *)
(* one at a time, and a per-slug store on disk.                             *)
(*                                                                          *)
(* Strings are sequences of tokens: the tokens "#", ".html" and "./" stand  *)
(* for those substrings, every other token is a piece of text that holds   *)
(* none of them.  A value that may be undefined is a sequence of length 0   *)
(* (undefined) or 1.                                                        *)
(***************************************************************************)
EXTENDS Naturals, Sequences, FiniteSets, TLC

VARIABLES
    remote,             \* slug -> the response of downloads.devdocs.io for <slug>.tar.gz
    docsets,            \* the slugs the host asks for (devdocs-adapter.docsets)
    theme,              \* workbench.colorTheme
    highlighter,        \* Downloader._highlighter
    slug,               \* Downloader._slug
    docsetPath,         \* Downloader._docsetPath (the slug of the directory, "" at construction)
    docsetName,         \* Downloader._docsetName
    reporter,           \* Downloader._reporter: the slug whose progress indicator it reports to
    documents,          \* Downloader._documents
    processedDocuments, \* Downloader._processedDocuments
    parsedDocuments,    \* Downloader._parsedDocuments, oldest entry first
    dirs,               \* the docset directories that exist under the store path
    files,              \* <<directory, file name>> -> content, the files of the store
    task,               \* slug -> the _download(slug) task of that slug
    running,            \* the task the event loop is running, or Nobody
    queue,              \* the slugs download() has still to start, in order
    callsLeft,          \* download() calls the host may still make
    accessOrder,        \* history: the keys got from or set in the in-memory tier since
                        \* its last clear(), each once, least recently accessed first
    probe,              \* the entry and the item of the _processEntry harness
    thrown,             \* the slugs whose _download of the last download() call threw
    adapterItems,       \* DevDocsAdapter._items
    manifests,          \* DevDocsAdapter._manifests
    webviews,           \* DevDocsAdapter._webviews: slug -> panel
    panels,             \* the webview panels of the host, by identity
    load,               \* the load() call of the adapter
    earlier,            \* the load() call that another load() call overtook while it was suspended
    opens,              \* the open() calls of the adapter
    left                \* what the host and the user may still do in the run

\* The state of the adapter and of its host
adapterVars == <<thrown, adapterItems, manifests, webviews, panels, load, earlier, opens, left>>

vars == <<reporter, remote, docsets, theme, highlighter, slug, docsetPath, docsetName,
          documents, processedDocuments, parsedDocuments, dirs, files, task,
          running, queue, callsLeft, accessOrder, probe, adapterVars>>

----------------------------------------------------------------------------
(* Bounds *)

\* download() calls of the host in a run with both doc sets, and in a run
\* with one doc set and theme changes
MaxCalls == 1
MaxCallsTheme == 2
\* The length of an entry path handed to _processEntry on its own
MaxPathLen == 4
\* load() calls of the host in a run of the adapter
MaxLoads == 2
\* The webview panels the host hands out in a run, and the open() calls of
\* the search command and of open messages in a run
MaxPanels == 2
MaxOpens == 1
\* The files of the store that are removed from outside in a run
MaxRemovals == 1
\* The rows of the thead and of the tbody of a table and the cells of a row
MaxHeadRows == 2
MaxBodyRows == 3
MaxCols == 3
\* The pieces of the type of an entry handed to _categorize on its own
MaxTypeLen == 2
\* The panels the user closes in a run
MaxCloses == 1
\* The nodes of the body of a document handed to _processDocument on its
\* own, and the levels of elements around a leaf
MaxNodes == 2
MaxDepth == 1
\* download() calls of the host in a run where downloads fail and are made
\* again
MaxAttempts == 2

----------------------------------------------------------------------------
(* Strings *)

None == <<>>
Some(x) == <<x>>

\* String.prototype.replace(/\.html$/, '')
StripHtmlSuffix(s) ==
    IF Len(s) > 0 /\ s[Len(s)] = ".html" THEN SubSeq(s, 1, Len(s) - 1) ELSE s

\* The position of the first sep in s, or Len(s) + 1
FirstIndex(s, sep) ==
    IF \E k \in 1..Len(s) : s[k] = sep
    THEN CHOOSE k \in 1..Len(s) : s[k] = sep /\ \A j \in 1..(k - 1) : s[j] # sep
    ELSE Len(s) + 1

\* String.prototype.split(sep, 2): the first two pieces of s cut at every sep
Split2(s, sep) ==
    LET k == FirstIndex(s, sep)
        first == SubSeq(s, 1, k - 1)
        rest == SubSeq(s, k + 1, Len(s))
    IN  IF k > Len(s) THEN <<first>>
        ELSE <<first, SubSeq(rest, 1, FirstIndex(rest, sep) - 1)>>

\* path.normalize on a relative archive name: the "./" segments go
Normalize(name) == SelectSeq(name, LAMBDA tok : tok # "./")

----------------------------------------------------------------------------
(* Values *)

Slugs == {"javascript", "rust"}
Nobody == "nobody"

\* workbench.colorTheme values the host may hold
ThemeNames == {"Default Dark+", "Default Light+"}

\* defaultThemesMap and the fallback of _initHighlighter
ShikiTheme(name) ==
    CASE name = "Default Dark+" -> "dark-plus"
      [] name = "Default Light+" -> "light-plus"
      [] name = "Visual Studio Dark" -> "dark-plus"
      [] name = "Visual Studio Light" -> "light-plus"
      [] OTHER -> "dark-plus"

\* new LRUMap<string, CheerioAPI>(64)
Capacity == 64

IndexName == <<"index.json">>
MetaName == <<"meta.json">>
ItemsName == <<"items.json">>

MissingDetail == "ERROR: Documentation missing for item."

----------------------------------------------------------------------------
(* Maps: a function from the keys it holds *)

EmptyMap == <<>>
MapGet(m, k) == IF k \in DOMAIN m THEN Some(m[k]) ELSE None
MapSet(m, k, v) == [x \in (DOMAIN m) \cup {k} |-> IF x = k THEN v ELSE m[x]]
MapRemove(m, k) == [x \in (DOMAIN m) \ {k} |-> m[x]]

----------------------------------------------------------------------------
(* lru_map's LRUMap: a sequence of [key, value], least recently used first *)

LruKeys(c) == {c[n].key : n \in 1..Len(c)}

\* LRUMap.has: no change of the order
LruHas(c, k) == k \in LruKeys(c)

LruValue(c, k) == (CHOOSE n \in 1..Len(c) : c[n].key = k)

LruWithout(c, k) == SelectSeq(c, LAMBDA e : e.key # k)

\* LRUMap.get, the map afterwards: the entry becomes the most recently used
LruGet(c, k) ==
    IF LruHas(c, k) THEN Append(LruWithout(c, k), c[LruValue(c, k)]) ELSE c

\* A map that would drop the entry just put when the size exceeds the limit
LruSetEvictNewest(c, k, v) ==
    LET put == Append(LruWithout(c, k), [key |-> k, value |-> v])
    IN  IF Len(put) > Capacity THEN SubSeq(put, 1, Len(put) - 1) ELSE put

\* LRUMap.set: the entry becomes the most recently used, and the least
\* recently used entry is dropped when the size exceeds the limit
LruSet(c, k, v) ==
    LET put == Append(LruWithout(c, k), [key |-> k, value |-> v])
    IN  IF Len(put) > Capacity THEN Tail(put) ELSE put

\* The order of last access: key is the most recently accessed one
Accessed(order, key) == Append(SelectSeq(order, LAMBDA k : k # key), key)

----------------------------------------------------------------------------
(* _categorize and _processEntry, the parts that touch no state *)

ToLowerCase(tok) ==
    CASE tok = "Array" -> "array"
      [] tok = "ARRAY" -> "array"
      [] tok = "Typed" -> "typed"
      [] tok = "Class" -> "class"
      [] tok = "Collection" -> "collection"
      [] tok = "Container" -> "container"
      [] tok = "Method" -> "method"
      [] tok = "Struct" -> "struct"
      [] OTHER -> tok

\* A test that would look for the three words as they are written
CategorizeCaseSensitive(entryType) ==
    IF \E n \in 1..Len(entryType) :
           entryType[n] \in {"collection", "container", "array"}
    THEN "$(symbol-array)"
    ELSE "$(symbol-misc)"

\* entryType is a sequence of pieces of text, each a word or a part of one
Categorize(entryType) ==
    IF \E n \in 1..Len(entryType) :
           ToLowerCase(entryType[n]) \in {"collection", "container", "array"}
    THEN "$(symbol-array)"
    ELSE "$(symbol-misc)"

\* const [ref, anchor] = entry.path.replace(/\.html$/, '').split('#', 2)
EntryParts(entryPath) == Split2(StripHtmlSuffix(entryPath), "#")

\* const path = ref + '.html'
EntryFile(entryPath) == Append(EntryParts(entryPath)[1], ".html")

EntryAnchor(entryPath) ==
    IF Len(EntryParts(entryPath)) >= 2 THEN Some(EntryParts(entryPath)[2]) ELSE None

\* An item that would not tell a missing document from a found one
MakeItemBare(entry, document) ==
    [slug |-> slug,
     name |-> <<entry.name>>,
     path |-> EntryFile(entry.path),
     anchor |-> EntryAnchor(entry.path),
     label |-> <<Categorize(entry.type), " ", entry.name>>,
     detail |-> [text |-> "", of |-> document, at |-> EntryAnchor(entry.path)],
     description |-> <<docsetName, " - ">> \o entry.type]

\* The DocItem of entry, document being the result of _getDocument (None for
\* null), read with the instance's slug and doc set name as they are then
MakeItem(entry, document) ==
    [slug |-> slug,
     name |-> IF document = None THEN <<"~", entry.name, "~">> ELSE <<entry.name>>,
     path |-> EntryFile(entry.path),
     anchor |-> EntryAnchor(entry.path),
     label |-> <<Categorize(entry.type), " ", entry.name>>,
     detail |-> IF document = None
                THEN [text |-> MissingDetail, of |-> None, at |-> None]
                ELSE [text |-> "", of |-> document, at |-> EntryAnchor(entry.path)],
     description |-> <<docsetName, " - ">> \o entry.type]

\* The document _processDocument builds from a raw file, as far as the
\* instance's state decides it: the highlighter that rendered the code blocks
\* and whether the 'try it' section was removed
Transform(raw) ==
    [src |-> raw, theme |-> highlighter[1].theme, tryItRemoved |-> docsetName = "javascript"]

----------------------------------------------------------------------------
(* Archives: what the remote endpoint serves for a slug *)

File(name, body) == [type |-> "file", name |-> name, body |-> body]
Directory(name) == [type |-> "directory", name |-> name, body |-> [kind |-> "none"]]

Html(origin, name) == [kind |-> "html", origin |-> origin, file |-> name]
Meta(name, s) == [kind |-> "meta", name |-> name, slug |-> s, type |-> "doc"]
Index(entries) == [kind |-> "index", entries |-> entries]
Entry(name, path, type) == [name |-> name, path |-> path, type |-> type]

ArrayHtml == <<"js/array", ".html">>
VecHtml == <<"std/vec", ".html">>

\* The two-entry manifest of the end-to-end example: both entries name the
\* file with its extension
JsExample ==
    [ok |-> TRUE,
     records |-> <<
        File(IndexName, Index(<<
            Entry("Array", <<"js/array", ".html">>, <<"Class">>),
            Entry("at", <<"js/array", ".html", "#", "at">>, <<"Method">>)>>)),
        File(MetaName, Meta("javascript", "javascript")),
        File(ArrayHtml, Html("javascript", ArrayHtml))>>]

\* Entries without the extension; the second names a file the archive lacks
JsPlain ==
    [ok |-> TRUE,
     records |-> <<
        Directory(<<"./", "js/">>),
        File(<<"./", "js/array", ".html">>, Html("javascript", ArrayHtml)),
        File(<<"./", "index.json">>, Index(<<
            Entry("Array", <<"js/array">>, <<"Class">>),
            Entry("gone", <<"js/gone">>, <<"Method">>),
            Entry("at", <<"js/array", "#", "at">>, <<"Method">>)>>)),
        File(<<"./", "meta.json">>, Meta("javascript", "javascript"))>>]

RustSmall ==
    [ok |-> TRUE,
     records |-> <<
        File(IndexName, Index(<<Entry("Vec", <<"std/vec">>, <<"Struct">>)>>)),
        File(MetaName, Meta("Rust", "rust")),
        File(VecHtml, Html("rust", VecHtml))>>]

\* A response that is not ok
JsNotFound == [ok |-> FALSE, records |-> <<>>]

\* An archive without index.json
JsNoIndex ==
    [ok |-> TRUE,
     records |-> <<
        File(MetaName, Meta("javascript", "javascript")),
        File(ArrayHtml, Html("javascript", ArrayHtml))>>]

\* A record the extractor cannot decode: it emits 'error'
Bad == [type |-> "bad", name |-> <<>>, body |-> [kind |-> "none"]]

\* An archive that is malformed after its manifests
JsBroken ==
    [ok |-> TRUE,
     records |-> <<
        File(IndexName, Index(<<Entry("Array", <<"js/array">>, <<"Class">>)>>)),
        File(MetaName, Meta("javascript", "javascript")),
        Bad,
        File(ArrayHtml, Html("javascript", ArrayHtml))>>]

\* An archive whose meta.json is not JSON
JsBadMeta ==
    [ok |-> TRUE,
     records |-> <<
        File(IndexName, Index(<<Entry("Array", <<"js/array">>, <<"Class">>)>>)),
        File(MetaName, [kind |-> "garbage"]),
        File(ArrayHtml, Html("javascript", ArrayHtml))>>]

\* A page whose code block names a language the highlighter has not loaded:
\* codeToHtml throws on it
BadPreHtml == <<"js/tagged", ".html">>

\* The first entry names that page, the second a page that highlights
JsBadPre ==
    [ok |-> TRUE,
     records |-> <<
        File(IndexName, Index(<<
            Entry("tagged", <<"js/tagged">>, <<"Function">>),
            Entry("Array", <<"js/array">>, <<"Class">>)>>)),
        File(MetaName, Meta("javascript", "javascript")),
        File(BadPreHtml, Html("javascript", BadPreHtml)),
        File(ArrayHtml, Html("javascript", ArrayHtml))>>]

\* A manifest that fills the in-memory tier: fill distinct files, then the
\* first file again, one more file, the first again and the second again
PageHtml(n) == <<"page", ToString(n), ".html">>
PageEntry(n) == Entry(ToString(n), <<"page", ToString(n)>>, <<"Method">>)
LongEntries(fill) ==
    [n \in 1..fill |-> PageEntry(n)]
        \o <<PageEntry(1), PageEntry(fill + 1), PageEntry(1), PageEntry(2)>>
JsLong(fill) ==
    [ok |-> TRUE,
     records |->
        <<File(IndexName, Index(LongEntries(fill))),
          File(MetaName, Meta("javascript", "javascript"))>>
        \o [n \in 1..(fill + 1) |-> File(PageHtml(n), Html("javascript", PageHtml(n)))]]

----------------------------------------------------------------------------
(* The tasks *)

IdleTask ==
    [pc |-> "idle", force |-> FALSE, theme |-> None, recs |-> <<>>,
     indexFile |-> None, meta |-> None, entries |-> <<>>, items |-> <<>>, i |-> 0,
     fileName |-> None, doc |-> None,
     wpath |-> None, wcontent |-> None, wnext |-> "",
     sinceTheme |-> FALSE]

\* The task that runs next when the running one suspends or returns: the
\* next _download call of slugs.map, if download() has any left to make
Yield ==
    /\ running' = IF queue = <<>> THEN Nobody ELSE Head(queue)
    /\ queue' = IF queue = <<>> THEN <<>> ELSE Tail(queue)

\* The sequences without repetition of the slugs of S
Orders(S) ==
    {<<a>> : a \in S} \cup {p \in S \X S : p[1] # p[2]}

InitDownloader ==
    /\ highlighter = None
    /\ slug = ""
    /\ docsetPath = ""
    /\ docsetName = ""
    /\ reporter = None
    /\ documents = EmptyMap
    /\ processedDocuments = {}
    /\ parsedDocuments = <<>>
    /\ dirs = {}
    /\ files = EmptyMap
    /\ task = [t \in Slugs |-> IdleTask]
    /\ running = Nobody
    /\ queue = <<>>
    /\ accessOrder = <<>>

\* What the host and the user may still do: remove a file of the store,
\* call open(), close a panel, restore a panel of an earlier session
NoBudget == [removals |-> 0, opens |-> 0, closes |-> 0]

PanelIds == 1..MaxPanels
\* The open() calls of a run: those of the user and the one of the restore
OpenIds == 1..(MaxOpens + 1)

\* A panel the host has not handed out.  A panel is "serialized" when it is
\* kept from an earlier session with the state its webview had saved, "live"
\* once created or restored, and "disposed" once the user has closed it; slug
\* is the meta.slug its onDidDispose handler was registered with by _webview
NoPanel == [status |-> "none", slug |-> "", state |-> None, html |-> None, posted |-> <<>>]

\* No load() call in flight
IdleLoad == [pc |-> "idle", slugs |-> <<>>, force |-> FALSE, prevManifests |-> EmptyMap, n |-> 0]

\* No open() call in the slot
IdleOpen == [pc |-> "idle", origin |-> "", item |-> None, panel |-> 0, sent |-> <<>>]

\* new DevDocsAdapter(storePath, extensionUri)
InitAdapter ==
    /\ thrown = {}
    /\ adapterItems = <<>>
    /\ manifests = EmptyMap
    /\ webviews = EmptyMap
    /\ panels = [p \in PanelIds |-> NoPanel]
    /\ load = IdleLoad
    /\ earlier = IdleLoad
    /\ opens = [o \in OpenIds |-> IdleOpen]

Init ==
    /\ InitDownloader
    /\ InitAdapter
    /\ left = NoBudget
    /\ theme = "Default Dark+"
    /\ callsLeft = MaxCalls
    /\ docsets = Slugs
    /\ remote \in {[javascript |-> js, rust |-> RustSmall] : js \in {JsExample, JsPlain}}
    /\ probe = [path |-> <<>>, out |-> None]

----------------------------------------------------------------------------
(* The host *)

\* The user picks another colour theme
ThemeChange(name) ==
    /\ running = Nobody
    /\ name # theme
    /\ theme' = name
    /\ task' = [t \in Slugs |-> [task[t] EXCEPT !.sinceTheme = FALSE]]
    /\ UNCHANGED <<adapterVars, reporter, remote, docsets, highlighter, slug, docsetPath, docsetName,
                   documents, processedDocuments, parsedDocuments, dirs, files,
                   running, queue, callsLeft, accessOrder, probe>>

\* download(slugs, force): Promise.all(slugs.map(doc => this._download(doc, force)))
\* calls _download for each slug in turn, each call running up to its first
\* suspension.  A slug is asked for again only when its task has ended.
Download(order, force) ==
    /\ running = Nobody
    /\ callsLeft > 0
    /\ \A n \in 1..Len(order) : task[order[n]].pc = "idle"
    /\ task' = [t \in Slugs |->
                    IF \E n \in 1..Len(order) : order[n] = t
                    THEN [IdleTask EXCEPT !.pc = "start", !.force = force]
                    ELSE task[t]]
    /\ running' = Head(order)
    /\ queue' = Tail(order)
    /\ callsLeft' = callsLeft - 1
    /\ UNCHANGED <<adapterVars, reporter, remote, docsets, theme, highlighter, slug, docsetPath, docsetName,
                   documents, processedDocuments, parsedDocuments, dirs, files,
                   accessOrder, probe>>

----------------------------------------------------------------------------
(* _download *)

\* this._highlighter ??= await this._initHighlighter(): with no highlighter,
\* _initHighlighter reads the theme name and suspends in getHighlighter.
\* rep is the value of _reporter when the call is made
StartTask(t, rep) ==
    /\ running = t
    /\ task[t].pc = "start"
    /\ reporter' = rep
    /\ IF highlighter = None
       THEN /\ task' = [task EXCEPT ![t].pc = "init",
                                    ![t].theme = Some(ShikiTheme(theme)),
                                    ![t].sinceTheme = TRUE]
            /\ Yield
       ELSE /\ task' = [task EXCEPT ![t].pc = "begin", ![t].sinceTheme = TRUE]
            /\ UNCHANGED <<running, queue>>
    /\ UNCHANGED <<adapterVars, remote, docsets, theme, highlighter, slug, docsetPath, docsetName,
                   documents, processedDocuments, parsedDocuments, dirs, files,
                   callsLeft, accessOrder, probe>>

\* _download(slug, force) called by the slugs.map of download()
StartDownload(t) == StartTask(t, reporter)

\* The callback download() hands to window.withProgress: it makes _reporter
\* report to the indicator of its slug and calls _download
WithProgress(t) == StartTask(t, Some(t))

\* getHighlighter resolves: the assignment of ??= is made with its result
InitHighlighterDone(t) ==
    /\ running = Nobody
    /\ task[t].pc = "init"
    /\ highlighter' = Some([theme |-> task[t].theme[1]])
    /\ task' = [task EXCEPT ![t].pc = "begin", ![t].theme = None]
    /\ running' = t
    /\ UNCHANGED <<adapterVars, reporter, remote, docsets, theme, slug, docsetPath, docsetName,
                   documents, processedDocuments, parsedDocuments, dirs, files,
                   queue, callsLeft, accessOrder, probe>>

\* The three clear() calls, the assignments of _slug and _docsetPath, the
\* test for a doc set already on disk and the call of fetch
Begin(t) ==
    /\ running = t
    /\ task[t].pc = "begin"
    /\ documents' = EmptyMap
    /\ processedDocuments' = {}
    /\ parsedDocuments' = <<>>
    /\ slug' = t
    /\ docsetPath' = t
    /\ IF ~task[t].force /\ t \in dirs
       THEN task' = [task EXCEPT ![t] = IdleTask]
       ELSE task' = [task EXCEPT ![t].pc = "fetch", ![t].force = FALSE]
    /\ Yield
    /\ accessOrder' = <<>>
    /\ UNCHANGED <<adapterVars, reporter, remote, docsets, theme, highlighter, docsetName, dirs, files,
                   callsLeft, probe>>

\* fetch resolves: a response that is not ok makes _fetchExtract return, and
\* _download goes on to look for the manifests
FetchResponse(t) ==
    /\ running = Nobody
    /\ task[t].pc = "fetch"
    /\ IF remote[t].ok
       THEN /\ task' = [task EXCEPT ![t].pc = "body"]
            /\ UNCHANGED running
       ELSE /\ task' = [task EXCEPT ![t].pc = "manifests"]
            /\ running' = t
    /\ UNCHANGED <<adapterVars, reporter, remote, docsets, theme, highlighter, slug, docsetPath, docsetName,
                   documents, processedDocuments, parsedDocuments, dirs, files,
                   queue, callsLeft, accessOrder, probe>>

\* The body ends: the inflated archive is written to the extractor
BodyEnd(t) ==
    /\ running = Nobody
    /\ task[t].pc = "body"
    /\ task' = [task EXCEPT ![t].pc = "extract", ![t].recs = remote[t].records]
    /\ UNCHANGED <<adapterVars, reporter, remote, docsets, theme, highlighter, slug, docsetPath, docsetName,
                   documents, processedDocuments, parsedDocuments, dirs, files,
                   running, queue, callsLeft, accessOrder, probe>>

\* One record of the archive: the 'entry' handler and the record's 'end'
ExtractEntry(t) ==
    /\ running = Nobody
    /\ task[t].pc = "extract"
    /\ task[t].recs # <<>>
    /\ Head(task[t].recs).type # "bad"
    /\ LET rec == Head(task[t].recs)
       IN  documents' = IF rec.type # "file" THEN documents
                        ELSE MapSet(documents, Normalize(rec.name), rec.body)
    /\ task' = [task EXCEPT ![t].recs = Tail(@)]
    /\ UNCHANGED <<adapterVars, reporter, remote, docsets, theme, highlighter, slug, docsetPath, docsetName,
                   processedDocuments, parsedDocuments, dirs, files,
                   running, queue, callsLeft, accessOrder, probe>>

\* extract.on('error', console.error): the extractor meets a record it
\* cannot decode and the error is logged.  tar-stream then either goes on
\* with the next record or is destroyed, and a destroyed extractor never
\* emits 'finish': the await of _fetchExtract stays pending
ExtractError(t) ==
    /\ running = Nobody
    /\ task[t].pc = "extract"
    /\ task[t].recs # <<>>
    /\ Head(task[t].recs).type = "bad"
    /\ \/ task' = [task EXCEPT ![t].recs = Tail(@)]
       \/ task' = [task EXCEPT ![t].pc = "stalled", ![t].recs = <<>>]
    /\ UNCHANGED <<adapterVars, reporter, remote, docsets, theme, highlighter, slug, docsetPath,
                   docsetName, documents, processedDocuments, parsedDocuments, dirs,
                   files, running, queue, callsLeft, accessOrder, probe>>

\* The extractor's 'finish'
ExtractFinish(t) ==
    /\ running = Nobody
    /\ task[t].pc = "extract"
    /\ task[t].recs = <<>>
    /\ task' = [task EXCEPT ![t].pc = "manifests"]
    /\ running' = t
    /\ UNCHANGED <<adapterVars, reporter, remote, docsets, theme, highlighter, slug, docsetPath, docsetName,
                   documents, processedDocuments, parsedDocuments, dirs, files,
                   queue, callsLeft, accessOrder, probe>>

\* _writeFile(fileName, content) up to its first await: the path is joined
\* from _docsetPath as it is at the call
WriteCall(t, fileName, content, next) ==
    [task[t] EXCEPT !.pc = "mkdir", !.wpath = Some(<<docsetPath, fileName>>),
                    !.wcontent = Some(content), !.wnext = next]

\* JSON.parse(metaFile.toString()) throws: both manifests are in _documents
\* and meta.json is not JSON
MetaThrows ==
    /\ MapGet(documents, IndexName) # None
    /\ MapGet(documents, MetaName) # None
    /\ documents[MetaName].kind # "meta"

\* The manifests are looked up in _documents; with both there, meta.json is
\* parsed and the doc set's meta.json is handed to _writeFile
Manifests(t) ==
    /\ running = t
    /\ task[t].pc = "manifests"
    /\ ~MetaThrows
    /\ LET indexFile == MapGet(documents, IndexName)
           metaFile == MapGet(documents, MetaName)
       IN  IF indexFile = None \/ metaFile = None
           THEN task' = [task EXCEPT ![t] = IdleTask]
           ELSE task' = [task EXCEPT ![t] =
                    [WriteCall(t, MetaName,
                               [kind |-> "meta", name |-> metaFile[1].name,
                                slug |-> metaFile[1].slug, type |-> metaFile[1].type],
                               "afterMeta")
                        EXCEPT !.indexFile = indexFile, !.meta = metaFile]]
    /\ Yield
    /\ UNCHANGED <<adapterVars, reporter, remote, docsets, theme, highlighter, slug, docsetPath, docsetName,
                   documents, processedDocuments, parsedDocuments, dirs, files,
                   callsLeft, accessOrder, probe>>

\* JSON.parse of meta.json throws in _download: the promise of the task is
\* rejected, and with it the promise of Promise.all
ManifestsThrow(t) ==
    /\ running = t
    /\ task[t].pc = "manifests"
    /\ MetaThrows
    /\ task' = [task EXCEPT ![t] = IdleTask]
    /\ thrown' = thrown \cup {t}
    /\ Yield
    /\ UNCHANGED <<adapterItems, manifests, webviews, panels, load, opens, left,
                   earlier, reporter, remote, docsets, theme, highlighter, slug, docsetPath, docsetName,
                   documents, processedDocuments, parsedDocuments, dirs, files,
                   callsLeft, accessOrder, probe>>

\* fs.promises.mkdir(path.dirname(filePath), { recursive: true })
Mkdir(t) ==
    /\ running = Nobody
    /\ task[t].pc = "mkdir"
    /\ dirs' = dirs \cup {task[t].wpath[1][1]}
    /\ task' = [task EXCEPT ![t].pc = "write"]
    /\ UNCHANGED <<adapterVars, reporter, remote, docsets, theme, highlighter, slug, docsetPath, docsetName,
                   documents, processedDocuments, parsedDocuments, files,
                   running, queue, callsLeft, accessOrder, probe>>

\* A file operation of the task completes.  For a write, fs.promises.writeFile
\* stores the content and the caller of _writeFile goes on; _download returns
\* after items.json.  A read is the readFile(fileName) of _getDocument, whose
\* path is relative to the process and not to the store: it rejects.
FileDone(t) ==
    /\ running = Nobody
    /\ task[t].pc \in {"write", "read"}
    /\ IF task[t].pc = "read"
       THEN /\ task' = [task EXCEPT ![t] = IdleTask]
            /\ UNCHANGED <<files, running>>
       ELSE /\ files' = MapSet(files, task[t].wpath[1], task[t].wcontent[1])
            /\ IF task[t].wnext = "done"
               THEN /\ task' = [task EXCEPT ![t] = IdleTask]
                    /\ UNCHANGED running
               ELSE /\ task' = [task EXCEPT ![t].pc = task[t].wnext,
                                            ![t].wpath = None, ![t].wcontent = None]
                    /\ running' = t
    /\ UNCHANGED <<adapterVars, reporter, remote, docsets, theme, highlighter, slug, docsetPath, docsetName,
                   documents, processedDocuments, parsedDocuments, dirs,
                   queue, callsLeft, accessOrder, probe>>

\* this._docsetName = meta.name, and the entries of the index file read before
AfterMeta(t) ==
    /\ running = t
    /\ task[t].pc = "afterMeta"
    /\ docsetName' = task[t].meta[1].name
    /\ task' = [task EXCEPT ![t].pc = "entry",
                            ![t].entries = task[t].indexFile[1].entries,
                            ![t].items = <<>>, ![t].i = 1,
                            ![t].indexFile = None, ![t].meta = None]
    /\ UNCHANGED <<adapterVars, reporter, remote, docsets, theme, highlighter, slug, docsetPath,
                   documents, processedDocuments, parsedDocuments, dirs, files,
                   running, queue, callsLeft, accessOrder, probe>>

\* The loop has ended: items.json is handed to _writeFile
ItemsWrite(t) ==
    /\ running = t
    /\ task[t].pc = "entry"
    /\ task[t].i > Len(task[t].entries)
    /\ task' = [task EXCEPT ![t] =
            WriteCall(t, ItemsName, [kind |-> "items", items |-> task[t].items], "done")]
    /\ Yield
    /\ UNCHANGED <<adapterVars, reporter, remote, docsets, theme, highlighter, slug, docsetPath, docsetName,
                   documents, processedDocuments, parsedDocuments, dirs, files,
                   callsLeft, accessOrder, probe>>

\* A loop that would emit no item for a missing document
EmitItemDropMissing(t, document) ==
    [task[t] EXCEPT !.pc = "entry", !.i = @ + 1,
                    !.items = IF document = None THEN @
                              ELSE Append(@, MakeItem(task[t].entries[task[t].i], document)),
                    !.fileName = None, !.doc = None]

\* items[i] = await this._processEntry(entries[i]), the item being built
\* when _getDocument has returned
EmitItem(t, document) ==
    [task[t] EXCEPT !.pc = "entry", !.i = @ + 1,
                    !.items = Append(@, MakeItem(task[t].entries[task[t].i], document)),
                    !.fileName = None, !.doc = None]

\* _processEntry up to _getDocument's answer from the in-memory tier or its
\* call of readFile or of _processDocument
GetDocument(t) ==
    /\ running = t
    /\ task[t].pc = "entry"
    /\ task[t].i <= Len(task[t].entries)
    /\ LET fileName == EntryFile(task[t].entries[task[t].i].path)
       IN  IF LruHas(parsedDocuments, fileName)
           THEN /\ parsedDocuments' = LruGet(parsedDocuments, fileName)
                /\ accessOrder' = Accessed(accessOrder, fileName)
                /\ task' = [task EXCEPT ![t] =
                        EmitItem(t, Some(parsedDocuments[LruValue(parsedDocuments, fileName)].value))]
                /\ UNCHANGED <<running, queue>>
           ELSE IF fileName \in processedDocuments
           THEN /\ task' = [task EXCEPT ![t].pc = "read", ![t].fileName = Some(fileName)]
                /\ Yield
                /\ UNCHANGED <<parsedDocuments, accessOrder>>
           ELSE /\ task' = [task EXCEPT ![t].pc = "process", ![t].fileName = Some(fileName)]
                /\ UNCHANGED <<parsedDocuments, accessOrder, running, queue>>
    /\ UNCHANGED <<adapterVars, reporter, remote, docsets, theme, highlighter, slug, docsetPath, docsetName,
                   documents, processedDocuments, dirs, files,
                   callsLeft, probe>>

\* this._highlighter.codeToHtml throws on a code block of the raw document
CodeThrows(raw) == raw.kind = "html" /\ raw.file = BadPreHtml

\* The file _processDocument is called for is in _documents and one of its
\* code blocks makes codeToHtml throw
DocumentThrows(t) ==
    /\ MapGet(documents, task[t].fileName[1]) # None
    /\ CodeThrows(documents[task[t].fileName[1]])

\* _processDocument: null for a file _documents lacks, else the transformed
\* document is handed to _writeFile
ProcessDocument(t) ==
    /\ running = t
    /\ task[t].pc = "process"
    /\ ~DocumentThrows(t)
    /\ LET documentHtml == MapGet(documents, task[t].fileName[1])
       IN  IF documentHtml = None
           THEN /\ task' = [task EXCEPT ![t] = EmitItem(t, None)]
                /\ UNCHANGED <<running, queue>>
           ELSE /\ task' = [task EXCEPT ![t] =
                        [WriteCall(t, task[t].fileName[1],
                                   [kind |-> "html", document |-> Transform(documentHtml[1])],
                                   "afterDoc")
                            EXCEPT !.doc = Some(Transform(documentHtml[1]))]]
                /\ Yield
    /\ UNCHANGED <<adapterVars, reporter, remote, docsets, theme, highlighter, slug, docsetPath, docsetName,
                   documents, processedDocuments, parsedDocuments, dirs, files,
                   callsLeft, accessOrder, probe>>

\* codeToHtml throws inside document('pre').each: nothing catches it, the
\* promises of _processDocument, _getDocument, _processEntry and _download
\* are rejected, and with them the promise of Promise.all
ProcessDocumentThrow(t) ==
    /\ running = t
    /\ task[t].pc = "process"
    /\ DocumentThrows(t)
    /\ task' = [task EXCEPT ![t] = IdleTask]
    /\ thrown' = thrown \cup {t}
    /\ Yield
    /\ UNCHANGED <<adapterItems, manifests, webviews, panels, load, opens, left,
                   earlier, reporter, remote, docsets, theme, highlighter, slug, docsetPath, docsetName,
                   documents, processedDocuments, parsedDocuments, dirs, files,
                   callsLeft, accessOrder, probe>>

\* _processDocument returns the document: _getDocument puts it in the
\* in-memory tier and _processEntry builds the item
AfterDoc(t) ==
    /\ running = t
    /\ task[t].pc = "afterDoc"
    /\ parsedDocuments' = LruSet(parsedDocuments, task[t].fileName[1], task[t].doc[1])
    /\ accessOrder' = Accessed(accessOrder, task[t].fileName[1])
    /\ task' = [task EXCEPT ![t] = EmitItem(t, task[t].doc)]
    /\ UNCHANGED <<adapterVars, reporter, remote, docsets, theme, highlighter, slug, docsetPath, docsetName,
                   documents, processedDocuments, dirs, files,
                   running, queue, callsLeft, probe>>

----------------------------------------------------------------------------

Next ==
    \/ \E order \in Orders(docsets), force \in BOOLEAN : Download(order, force)
    \/ \E t \in Slugs :
        \/ StartDownload(t)
        \/ InitHighlighterDone(t)
        \/ Begin(t)
        \/ FetchResponse(t)
        \/ BodyEnd(t)
        \/ ExtractEntry(t)
        \/ ExtractFinish(t)
        \/ Manifests(t)
        \/ Mkdir(t)
        \/ FileDone(t)
        \/ AfterMeta(t)
        \/ ItemsWrite(t)
        \/ GetDocument(t)
        \/ ProcessDocument(t)
        \/ AfterDoc(t)

Spec == Init /\ [][Next]_vars

----------------------------------------------------------------------------
(* One doc set whose manifest fills the in-memory tier *)

InitCache ==
    /\ InitDownloader
    /\ InitAdapter
    /\ left = NoBudget
    /\ theme = "Default Dark+"
    /\ callsLeft = MaxCalls
    /\ docsets = {"javascript"}
    /\ remote \in {[javascript |-> JsLong(fill), rust |-> RustSmall] :
                        fill \in {Capacity - 1, Capacity}}
    /\ probe = [path |-> <<>>, out |-> None]

SpecCache == InitCache /\ [][Next]_vars

----------------------------------------------------------------------------
(* Downloads that fail: not found, without index.json, malformed, a code
   block that cannot be highlighted *)

InitFail ==
    /\ InitDownloader
    /\ InitAdapter
    /\ left = NoBudget
    /\ theme = "Default Dark+"
    /\ callsLeft = MaxCalls
    /\ docsets = Slugs
    /\ remote \in {[javascript |-> js, rust |-> RustSmall] :
                        js \in {JsNotFound, JsNoIndex, JsBroken, JsBadPre}}
    /\ probe = [path |-> <<>>, out |-> None]

NextFail ==
    \/ Next
    \/ \E t \in Slugs :
        \/ ExtractError(t)
        \/ ProcessDocumentThrow(t)

SpecFail == InitFail /\ [][NextFail]_vars

----------------------------------------------------------------------------
(* One doc set, downloaded again after the theme has changed *)

InitTheme ==
    /\ InitDownloader
    /\ InitAdapter
    /\ left = NoBudget
    /\ theme \in ThemeNames
    /\ callsLeft = MaxCallsTheme
    /\ docsets = {"rust"}
    /\ remote = [javascript |-> JsExample, rust |-> RustSmall]
    /\ probe = [path |-> <<>>, out |-> None]

NextTheme ==
    \/ Next
    \/ \E name \in ThemeNames : ThemeChange(name)

SpecTheme == InitTheme /\ [][NextTheme]_vars

----------------------------------------------------------------------------
(* _processEntry's split of an entry path, on every path of a bounded length *)

PathTokens == {"api/foo", "bar-baz", "#", ".html"}

Paths == UNION {[1..n -> PathTokens] : n \in 0..MaxPathLen}

InitEntry ==
    /\ InitDownloader
    /\ InitAdapter
    /\ left = NoBudget
    /\ theme = "Default Dark+"
    /\ callsLeft = MaxCalls
    /\ docsets = {}
    /\ remote = [javascript |-> JsExample, rust |-> RustSmall]
    /\ probe \in {[path |-> p, out |-> None] : p \in Paths}

\* The path and the anchor _processEntry puts in the item of an entry
SplitEntry ==
    /\ probe.out = None
    /\ probe' = [probe EXCEPT !.out =
                    Some([path |-> EntryFile(probe.path), anchor |-> EntryAnchor(probe.path)])]
    /\ UNCHANGED <<adapterVars, reporter, remote, docsets, theme, highlighter, slug, docsetPath, docsetName,
                   documents, processedDocuments, parsedDocuments, dirs, files, task,
                   running, queue, callsLeft, accessOrder>>

SpecEntry == InitEntry /\ [][SplitEntry]_vars

----------------------------------------------------------------------------
(* DevDocsAdapter.load *)

\* fs.existsSync of meta.json and of items.json of the slug
Persisted(s) ==
    /\ <<s, MetaName>> \in DOMAIN files
    /\ <<s, ItemsName>> \in DOMAIN files

\* The loop of the load() call from its n-th slug up to its next await or
\* its return, mf being this._manifests: the manifest kept from the previous
\* load, the test for the two files, and the call of readFile for both
LoadIterOf(call, n, mf) ==
    IF n > Len(call.slugs)
    THEN [pc |-> "done", manifests |-> mf]
    ELSE LET s == call.slugs[n]
             kept == IF ~call.force /\ s \in DOMAIN call.prevManifests
                     THEN MapSet(mf, s, call.prevManifests[s])
                     ELSE mf
         IN  IF Persisted(s)
             THEN [pc |-> "reading", manifests |-> kept]
             ELSE [pc |-> "returned", manifests |-> kept]

\* The loop of the load() call made last
LoadIter(n, mf) == LoadIterOf(load, n, mf)

\* No load() call is suspended
LoadSettled == load.pc \in {"idle", "done", "returned", "rejected"}

\* load(slugs, force) up to its await of this._downloader.download, with the
\* calls of _download that download makes
Load(order, force) ==
    /\ running = Nobody
    /\ LoadSettled
    /\ callsLeft > 0
    /\ \A t \in Slugs : task[t].pc = "idle"
    /\ load' = [pc |-> "downloading", slugs |-> order, force |-> force,
                prevManifests |-> manifests, n |-> 1]
    /\ adapterItems' = <<>>
    /\ manifests' = EmptyMap
    /\ thrown' = {}
    /\ task' = [t \in Slugs |->
                    IF \E n \in 1..Len(order) : order[n] = t
                    THEN [IdleTask EXCEPT !.pc = "start", !.force = force]
                    ELSE task[t]]
    /\ running' = Head(order)
    /\ queue' = Tail(order)
    /\ callsLeft' = callsLeft - 1
    /\ UNCHANGED <<webviews, panels, opens, left,
                   earlier, reporter, remote, docsets, theme, highlighter, slug, docsetPath, docsetName,
                   documents, processedDocuments, parsedDocuments, dirs, files,
                   accessOrder, probe>>

\* A _download has thrown: Promise.all rejects at once, download() rejects
\* and load() rejects at its await, whatever the other tasks are doing
LoadRejected ==
    /\ running = Nobody
    /\ load.pc = "downloading"
    /\ thrown # {}
    /\ load' = [load EXCEPT !.pc = "rejected"]
    /\ UNCHANGED <<thrown, adapterItems, manifests, webviews, panels, opens, left,
                   earlier, reporter, remote, docsets, theme, highlighter, slug, docsetPath, docsetName,
                   documents, processedDocuments, parsedDocuments, dirs, files, task,
                   running, queue, callsLeft, accessOrder, probe>>

\* Every _download has returned: download() resolves and load() enters its
\* loop over the slugs
LoadDownloaded ==
    /\ running = Nobody
    /\ load.pc = "downloading"
    /\ thrown = {}
    /\ queue = <<>>
    /\ \A t \in Slugs : task[t].pc = "idle"
    /\ load' = [load EXCEPT !.pc = LoadIter(1, manifests).pc]
    /\ manifests' = LoadIter(1, manifests).manifests
    /\ UNCHANGED <<thrown, adapterItems, webviews, panels, opens, left,
                   earlier, reporter, remote, docsets, theme, highlighter, slug, docsetPath, docsetName,
                   documents, processedDocuments, parsedDocuments, dirs, files, task,
                   running, queue, callsLeft, accessOrder, probe>>

\* A push that would put the items read before those already there
PushItemsFront(items, read) == read \o items

\* this._items.push(...JSON.parse(items.toString()))
PushItems(items, read) == items \o read

\* The two readFile calls of the n-th slug resolve: its manifest is set, its
\* items are pushed and the loop goes on with the next slug
LoadRead ==
    /\ running = Nobody
    /\ load.pc = "reading"
    /\ Persisted(load.slugs[load.n])
    /\ LET s == load.slugs[load.n]
           read == MapSet(manifests, s, files[<<s, MetaName>>])
       IN  /\ adapterItems' = PushItems(adapterItems, files[<<s, ItemsName>>].items)
           /\ load' = [load EXCEPT !.n = @ + 1, !.pc = LoadIter(load.n + 1, read).pc]
           /\ manifests' = LoadIter(load.n + 1, read).manifests
    /\ UNCHANGED <<thrown, webviews, panels, opens, left,
                   earlier, reporter, remote, docsets, theme, highlighter, slug, docsetPath, docsetName,
                   documents, processedDocuments, parsedDocuments, dirs, files, task,
                   running, queue, callsLeft, accessOrder, probe>>

\* A manifest file of the store is removed from outside the extension while
\* nothing is in flight
RemoveFile(s, name) ==
    /\ running = Nobody
    /\ LoadSettled
    /\ \A t \in Slugs : task[t].pc = "idle"
    /\ left.removals > 0
    /\ <<s, name>> \in DOMAIN files
    /\ files' = MapRemove(files, <<s, name>>)
    /\ left' = [left EXCEPT !.removals = @ - 1]
    /\ UNCHANGED <<thrown, adapterItems, manifests, webviews, panels, load, opens,
                   earlier, reporter, remote, docsets, theme, highlighter, slug, docsetPath, docsetName,
                   documents, processedDocuments, parsedDocuments, dirs, task,
                   running, queue, callsLeft, accessOrder, probe>>

InitLoad ==
    /\ InitDownloader
    /\ InitAdapter
    /\ left = [NoBudget EXCEPT !.removals = MaxRemovals]
    /\ theme = "Default Dark+"
    /\ callsLeft = MaxLoads
    /\ docsets = Slugs
    /\ remote \in {[javascript |-> js, rust |-> RustSmall] :
                        js \in {JsNotFound, JsBadMeta}}
    /\ probe = [path |-> <<>>, out |-> None]

NextLoad ==
    \/ \E order \in Orders(docsets), force \in BOOLEAN : Load(order, force)
    \/ LoadRejected
    \/ LoadDownloaded
    \/ LoadRead
    \/ \E s \in Slugs, name \in {MetaName, ItemsName} : RemoveFile(s, name)
    \/ \E t \in Slugs :
        \/ StartDownload(t)
        \/ InitHighlighterDone(t)
        \/ Begin(t)
        \/ FetchResponse(t)
        \/ BodyEnd(t)
        \/ ExtractEntry(t)
        \/ ExtractFinish(t)
        \/ Manifests(t)
        \/ ManifestsThrow(t)
        \/ Mkdir(t)
        \/ FileDone(t)
        \/ AfterMeta(t)
        \/ ItemsWrite(t)
        \/ GetDocument(t)
        \/ ProcessDocument(t)
        \/ AfterDoc(t)

SpecLoad == InitLoad /\ [][NextLoad]_vars

----------------------------------------------------------------------------
(* DevDocsAdapter.open and the webview panels *)

\* The messages posted to a webview
StateMessage(item) == [command |-> "state", state |-> Some(item), anchor |-> None]
AnchorMessage(anchor) == [command |-> "anchor", state |-> None, anchor |-> Some(anchor)]
ResetMessage == [command |-> "reset", state |-> None, anchor |-> None]

\* if (item.anchor): an anchor that is undefined or the empty string is falsy
HasAnchor(item) == item.anchor # None /\ item.anchor[1] # <<>>

\* A scroll message that would always be an anchor message
ScrollMessageAnchorOnly(item) ==
    AnchorMessage(IF item.anchor = None THEN <<>> ELSE item.anchor[1])

\* The message open() posts after the state: anchor with the item's anchor,
\* or reset
ScrollMessage(item) ==
    IF HasAnchor(item) THEN AnchorMessage(item.anchor[1]) ELSE ResetMessage

\* The panel createWebviewPanel hands out: the first one not yet used
FreshPanel == CHOOSE p \in PanelIds : panels[p].status = "none" /\
                    \A q \in PanelIds : panels[q].status = "none" => p <= q

\* A lookup that would never find a registered panel
RegisteredNever(s) == None

\* this._webviews.get(slug)
Registered(s) == MapGet(webviews, s)

\* _webview(slug, panel), the panels afterwards: the panel is live and its
\* handlers are bound to the slug of the loaded manifest
WebviewPanels(s, p) ==
    [panels EXCEPT ![p].status = "live", ![p].slug = manifests[s].slug]

\* _webview(slug, panel), the mapping afterwards
WebviewMap(s, p) == MapSet(webviews, manifests[s].slug, p)

\* The record of the next open() call: the first one not in use
FreshOpen == CHOOSE o \in OpenIds \cup {0} :
                /\ o # 0 => opens[o].pc = "idle"
                /\ \A q \in OpenIds : opens[q].pc = "idle" => (o # 0 /\ o <= q)

\* open(item) up to its await of readFile: the registered panel of the slug
\* is taken, or one is created by _webview, which throws when no manifest
\* of the slug is loaded
OpenCall(o, item, origin) ==
    /\ running = Nobody
    /\ o = FreshOpen
    /\ left.opens > 0
    /\ left' = [left EXCEPT !.opens = @ - 1]
    /\ IF Registered(item.slug) # None
       THEN /\ opens' = [opens EXCEPT ![o] =
                    [pc |-> "read", origin |-> origin, item |-> Some(item),
                     panel |-> Registered(item.slug)[1], sent |-> <<>>]]
            /\ UNCHANGED <<webviews, panels>>
       ELSE IF item.slug \notin DOMAIN manifests
       THEN UNCHANGED <<opens, webviews, panels>>
       ELSE /\ \E p \in PanelIds : panels[p].status = "none"
            /\ panels' = WebviewPanels(item.slug, FreshPanel)
            /\ webviews' = WebviewMap(item.slug, FreshPanel)
            /\ opens' = [opens EXCEPT ![o] =
                    [pc |-> "read", origin |-> origin, item |-> Some(item),
                     panel |-> FreshPanel, sent |-> <<>>]]
    /\ UNCHANGED <<thrown, adapterItems, manifests, load,
                   earlier, reporter, remote, docsets, theme, highlighter, slug, docsetPath, docsetName,
                   documents, processedDocuments, parsedDocuments, dirs, files, task,
                   running, queue, callsLeft, accessOrder, probe>>

\* open(item) called from the search command with an item of items()
OpenStart(o, item) == OpenCall(o, item, "search")

\* The links of the pages: the hrefs the webview script reports
Hrefs == {<<"array", "#", "at">>, <<"vec", ".html">>}

\* path.dirname of a stored path
Dirname(path) ==
    IF path[1] \in {"js/array", "js/gone"} THEN "js"
    ELSE IF path[1] = "std/vec" THEN "std"
    ELSE "."

\* path.join of a directory and a relative file name without dot segments
Join(dir, name) == IF dir = "." THEN name ELSE dir \o "/" \o name

\* A handler that would add the suffix without removing the one of href
MessageItemKeepSuffix(s, href, base) ==
    LET parts == Split2(href, "#")
        file == Append(parts[1], ".html")
    IN  [slug |-> s,
         anchor |-> IF Len(parts) >= 2 THEN Some(parts[2]) ELSE None,
         path |-> <<Join(Dirname(base), file[1])>> \o Tail(file)]

\* The item the message handler of a panel bound to slug s opens for
\* { command: 'open', href, base }
MessageItem(s, href, base) ==
    LET parts == Split2(href, "#")
        file == Append(StripHtmlSuffix(parts[1]), ".html")
    IN  [slug |-> s,
         anchor |-> IF Len(parts) >= 2 THEN Some(parts[2]) ELSE None,
         path |-> <<Join(Dirname(base), file[1])>> \o Tail(file)]

\* A link of the page shown in panel p is clicked: the webview posts an
\* open message with the path of its saved state as base, and the handler
\* of the panel calls open
OpenMessage(p, o, href) ==
    /\ panels[p].status = "live"
    /\ panels[p].html # None
    /\ panels[p].state # None
    /\ OpenCall(o, MessageItem(panels[p].slug, href, panels[p].state[1].path), "message")

\* readFile resolves or rejects: with the file read and the panel not
\* disposed, the HTML is assigned and the state message is posted.  The
\* assignment replaces the document of the webview: posted holds what the
\* document now shown has been sent, and the state saved by setState stays
OpenRead(o) ==
    /\ running = Nobody
    /\ opens[o].pc = "read"
    /\ LET item == opens[o].item[1]
           p == opens[o].panel
       IN  IF <<item.slug, item.path>> \notin DOMAIN files \/ panels[p].status # "live"
           THEN /\ opens' = [opens EXCEPT ![o] = IdleOpen]
                /\ UNCHANGED panels
           ELSE /\ panels' = [panels EXCEPT
                        ![p].html = Some(files[<<item.slug, item.path>>]),
                        ![p].state = Some(item),
                        ![p].posted = <<StateMessage(item)>>]
                /\ opens' = [opens EXCEPT ![o].pc = "state",
                                          ![o].sent = <<"html", StateMessage(item)>>]
    /\ UNCHANGED <<thrown, adapterItems, manifests, webviews, load, left,
                   earlier, reporter, remote, docsets, theme, highlighter, slug, docsetPath, docsetName,
                   documents, processedDocuments, parsedDocuments, dirs, files, task,
                   running, queue, callsLeft, accessOrder, probe>>

\* The post of the state message resolves: the anchor or the reset message
\* is posted, unless the panel has been disposed
OpenState(o) ==
    /\ running = Nobody
    /\ opens[o].pc = "state"
    /\ LET item == opens[o].item[1]
           p == opens[o].panel
       IN  IF panels[p].status # "live"
           THEN /\ opens' = [opens EXCEPT ![o] = IdleOpen]
                /\ UNCHANGED panels
           ELSE /\ panels' = [panels EXCEPT ![p].posted = Append(@, ScrollMessage(item))]
                /\ opens' = [opens EXCEPT ![o].pc = "scroll",
                                          ![o].sent = Append(@, ScrollMessage(item))]
    /\ UNCHANGED <<thrown, adapterItems, manifests, webviews, load, left,
                   earlier, reporter, remote, docsets, theme, highlighter, slug, docsetPath, docsetName,
                   documents, processedDocuments, parsedDocuments, dirs, files, task,
                   running, queue, callsLeft, accessOrder, probe>>

\* The post of the scroll message resolves: panel.reveal() and open() returns
OpenScroll(o) ==
    /\ running = Nobody
    /\ opens[o].pc = "scroll"
    /\ opens' = [opens EXCEPT ![o] = IdleOpen]
    /\ UNCHANGED <<thrown, adapterItems, manifests, webviews, panels, load, left,
                   earlier, reporter, remote, docsets, theme, highlighter, slug, docsetPath, docsetName,
                   documents, processedDocuments, parsedDocuments, dirs, files, task,
                   running, queue, callsLeft, accessOrder, probe>>

\* The user closes a panel: its onDidDispose handler deletes the entry of
\* the handler's slug from _webviews
ClosePanel(p) ==
    /\ running = Nobody
    /\ panels[p].status = "live"
    /\ left.closes > 0
    /\ left' = [left EXCEPT !.closes = @ - 1]
    /\ panels' = [panels EXCEPT ![p].status = "disposed"]
    /\ webviews' = IF panels[p].slug = "" THEN webviews
                   ELSE MapRemove(webviews, panels[p].slug)
    /\ UNCHANGED <<thrown, adapterItems, manifests, load, opens,
                   earlier, reporter, remote, docsets, theme, highlighter, slug, docsetPath, docsetName,
                   documents, processedDocuments, parsedDocuments, dirs, files, task,
                   running, queue, callsLeft, accessOrder, probe>>

\* deserializeWebviewPanel(panel, state): the host restores a panel of an
\* earlier session when it first becomes visible.  _webview registers it
\* for state.slug (it throws when no manifest of the slug is loaded) and
\* open(state) is called and runs up to its await of readFile
Deserialize(p, o) ==
    /\ running = Nobody
    /\ panels[p].status = "serialized"
    /\ o = FreshOpen
    /\ LET state == panels[p].state[1]
       IN  IF state.slug \notin DOMAIN manifests
           THEN /\ panels' = [panels EXCEPT ![p].status = "live"]
                /\ UNCHANGED <<webviews, opens>>
           ELSE /\ panels' = WebviewPanels(state.slug, p)
                /\ webviews' = WebviewMap(state.slug, p)
                /\ opens' = [opens EXCEPT ![o] =
                        [pc |-> "read", origin |-> "restore", item |-> Some(state),
                         panel |-> WebviewMap(state.slug, p)[state.slug], sent |-> <<>>]]
    /\ UNCHANGED <<thrown, adapterItems, manifests, load, left,
                   earlier, reporter, remote, docsets, theme, highlighter, slug, docsetPath, docsetName,
                   documents, processedDocuments, parsedDocuments, dirs, files, task,
                   running, queue, callsLeft, accessOrder, probe>>

\* What an earlier session has left in the store: the doc sets of JsPlain
\* and RustSmall as one download of each, on its own, under the dark theme
\* persists them
StoredDocument(origin, name, tryItRemoved) ==
    [src |-> Html(origin, name), theme |-> "dark-plus", tryItRemoved |-> tryItRemoved]

StoredItem(s, name, entry, document) ==
    [slug |-> s,
     name |-> IF document = None THEN <<"~", entry.name, "~">> ELSE <<entry.name>>,
     path |-> EntryFile(entry.path),
     anchor |-> EntryAnchor(entry.path),
     label |-> <<Categorize(entry.type), " ", entry.name>>,
     detail |-> IF document = None
                THEN [text |-> MissingDetail, of |-> None, at |-> None]
                ELSE [text |-> "", of |-> document, at |-> EntryAnchor(entry.path)],
     description |-> <<name, " - ">> \o entry.type]

JsStoredItems ==
    <<StoredItem("javascript", "javascript", Entry("Array", <<"js/array">>, <<"Class">>),
                 Some(StoredDocument("javascript", ArrayHtml, TRUE))),
      StoredItem("javascript", "javascript", Entry("gone", <<"js/gone">>, <<"Method">>),
                 None),
      StoredItem("javascript", "javascript", Entry("at", <<"js/array", "#", "at">>, <<"Method">>),
                 Some(StoredDocument("javascript", ArrayHtml, TRUE)))>>

RustStoredItems ==
    <<StoredItem("rust", "Rust", Entry("Vec", <<"std/vec">>, <<"Struct">>),
                 Some(StoredDocument("rust", VecHtml, FALSE)))>>

JsStore ==
    [x \in {<<"javascript", MetaName>>, <<"javascript", ItemsName>>, <<"javascript", ArrayHtml>>} |->
        IF x[2] = MetaName THEN Meta("javascript", "javascript")
        ELSE IF x[2] = ItemsName THEN [kind |-> "items", items |-> JsStoredItems]
        ELSE [kind |-> "html", document |-> StoredDocument("javascript", ArrayHtml, TRUE)]]

RustStore ==
    [x \in {<<"rust", MetaName>>, <<"rust", ItemsName>>, <<"rust", VecHtml>>} |->
        IF x[2] = MetaName THEN Meta("Rust", "rust")
        ELSE IF x[2] = ItemsName THEN [kind |-> "items", items |-> RustStoredItems]
        ELSE [kind |-> "html", document |-> StoredDocument("rust", VecHtml, FALSE)]]

\* The union of two stores of different directories
StoreUnion(a, b) == [x \in (DOMAIN a) \cup (DOMAIN b) |-> IF x \in DOMAIN a THEN a[x] ELSE b[x]]

\* A panel of slug javascript kept from the earlier session, its webview
\* having saved the item with the anchor as its state
SerializedPanel == [NoPanel EXCEPT !.status = "serialized", !.state = Some(JsStoredItems[3])]

\* The extension is activated with both doc sets in the store, with or
\* without a panel to restore
InitView ==
    /\ highlighter = None
    /\ slug = ""
    /\ docsetPath = ""
    /\ docsetName = ""
    /\ reporter = None
    /\ documents = EmptyMap
    /\ processedDocuments = {}
    /\ parsedDocuments = <<>>
    /\ dirs = Slugs
    /\ files = StoreUnion(JsStore, RustStore)
    /\ task = [t \in Slugs |-> IdleTask]
    /\ running = Nobody
    /\ queue = <<>>
    /\ accessOrder = <<>>
    /\ thrown = {}
    /\ adapterItems = <<>>
    /\ manifests = EmptyMap
    /\ webviews = EmptyMap
    /\ panels \in {[p \in PanelIds |-> IF p = 1 THEN first ELSE NoPanel] :
                        first \in {NoPanel, SerializedPanel}}
    /\ load = IdleLoad
    /\ earlier = IdleLoad
    /\ opens = [o \in OpenIds |-> IdleOpen]
    /\ left = [NoBudget EXCEPT !.opens = MaxOpens, !.closes = MaxCloses]
    /\ theme = "Default Dark+"
    /\ callsLeft = MaxCalls
    /\ docsets = Slugs
    /\ remote = [javascript |-> JsPlain, rust |-> RustSmall]
    /\ probe = [path |-> <<>>, out |-> None]

\* The items the search command offers: those of items()
SearchItems == {adapterItems[n] : n \in 1..Len(adapterItems)}

NextView ==
    \/ Load(<<"javascript", "rust">>, FALSE)
    \/ LoadDownloaded
    \/ LoadRead
    \/ \E t \in Slugs :
        \/ StartDownload(t)
        \/ InitHighlighterDone(t)
        \/ Begin(t)
    \/ \E o \in OpenIds :
        \/ \E item \in SearchItems : OpenStart(o, item)
        \/ \E p \in PanelIds, href \in Hrefs : OpenMessage(p, o, href)
        \/ OpenRead(o)
        \/ OpenState(o)
        \/ OpenScroll(o)
        \/ \E p \in PanelIds : Deserialize(p, o)
    \/ \E p \in PanelIds : ClosePanel(p)

SpecView == InitView /\ [][NextView]_vars

----------------------------------------------------------------------------
(* The handler of the open message, on every href of the four forms *)

\* The links a page may hold: a file name, with or without its suffix and
\* with or without a fragment
HrefForms ==
    {[file |-> f, html |-> h, anchor |-> a] :
        f \in {"array", "vec", "map"}, h \in BOOLEAN,
        a \in {None, Some(<<"at">>), Some(<<"len">>)}}

\* a.getAttribute('href') of such a link
HrefText(form) ==
    <<form.file>> \o (IF form.html THEN <<".html">> ELSE <<>>)
                 \o (IF form.anchor = None THEN <<>> ELSE <<"#">> \o form.anchor[1])

\* The paths of the documents that hold the links
Bases == {ArrayHtml, VecHtml, <<"index", ".html">>}

InitMessage ==
    /\ InitDownloader
    /\ InitAdapter
    /\ left = NoBudget
    /\ theme = "Default Dark+"
    /\ callsLeft = MaxCalls
    /\ docsets = {}
    /\ remote = [javascript |-> JsExample, rust |-> RustSmall]
    /\ probe \in {[slug |-> s, base |-> b, form |-> f, out |-> None] :
                    s \in Slugs, b \in Bases, f \in HrefForms}

\* The item the handler hands to open() for the message of the link
HandleMessage ==
    /\ probe.out = None
    /\ probe' = [probe EXCEPT !.out =
                    Some(MessageItem(probe.slug, HrefText(probe.form), probe.base))]
    /\ UNCHANGED <<adapterVars, reporter, remote, docsets, theme, highlighter, slug, docsetPath, docsetName,
                   documents, processedDocuments, parsedDocuments, dirs, files, task,
                   running, queue, callsLeft, accessOrder>>

SpecMessage == InitMessage /\ [][HandleMessage]_vars

----------------------------------------------------------------------------
(* _processDocument's restructuring of a table, on every table of a bounded
   size.  An element is its tag, the attributes the step sets and its
   children or, for a cell, its text *)

\* A cell of the raw table: the text tells the row and the column it was
\* written at.  Rows of the tbody are numbered after those of the thead
RawCell(tag, r, c) == [tag |-> tag, gridColumn |-> None, cellType |-> None, text |-> <<r, c>>]

RawRow(tag, r, n) ==
    [tag |-> "tr", rowType |-> None, children |-> [c \in 1..n |-> RawCell(tag, r, c)]]

\* The children of a <table> with a thead of h rows and a tbody of b rows
\* of n cells, the cells of the thead being headTag elements
RawTable(h, b, n, headTag) ==
    <<[tag |-> "thead", children |-> [r \in 1..h |-> RawRow(headTag, r, n)]],
      [tag |-> "tbody", children |-> [r \in 1..b |-> RawRow("td", h + r, n)]]>>

\* A cell step that would write el.index() as it is
GridCellZeroBased(cell, index, isHeader) ==
    [tag |-> "vscode-data-grid-cell",
     gridColumn |-> Some(index),
     cellType |-> Some(IF isHeader THEN "columnheader" ELSE "default"),
     text |-> cell.text]

\* The inner each(): the cell at el.index() = index of a row
GridCell(cell, index, isHeader) ==
    [tag |-> "vscode-data-grid-cell",
     gridColumn |-> Some(index + 1),
     cellType |-> Some(IF isHeader THEN "columnheader" ELSE "default"),
     text |-> cell.text]

\* The outer each(): a child of the thead or tbody
GridRow(row, isHeader) ==
    [tag |-> "vscode-data-grid-row",
     rowType |-> IF isHeader THEN Some("header") ELSE row.rowType,
     children |-> [c \in 1..Len(row.children) |-> GridCell(row.children[c], c - 1, isHeader)]]

\* document('thead, tbody').each(...): every thead and tbody among the
\* children, in document order, has its rewritten children inserted after
\* it and is removed
RECURSIVE Restructure(_)
Restructure(children) ==
    IF \A k \in 1..Len(children) : children[k].tag \notin {"thead", "tbody"}
    THEN children
    ELSE LET k == CHOOSE i \in 1..Len(children) :
                    /\ children[i].tag \in {"thead", "tbody"}
                    /\ \A j \in 1..(i - 1) : children[j].tag \notin {"thead", "tbody"}
             el == children[k]
             rows == [r \in 1..Len(el.children) |-> GridRow(el.children[r], el.tag = "thead")]
         IN  Restructure(SubSeq(children, 1, k - 1) \o rows \o SubSeq(children, k + 1, Len(children)))

InitTable ==
    /\ InitDownloader
    /\ InitAdapter
    /\ left = NoBudget
    /\ theme = "Default Dark+"
    /\ callsLeft = MaxCalls
    /\ docsets = {}
    /\ remote = [javascript |-> JsExample, rust |-> RustSmall]
    /\ probe \in {[h |-> h, b |-> b, n |-> n, table |-> RawTable(h, b, n, headTag), out |-> None] :
                    h \in 0..MaxHeadRows, b \in 0..MaxBodyRows, n \in 1..MaxCols,
                    headTag \in {"th", "td"}}

\* The table step of _processDocument on the table of the document
RestructureTable ==
    /\ probe.out = None
    /\ probe' = [probe EXCEPT !.out = Some(Restructure(probe.table))]
    /\ UNCHANGED <<adapterVars, reporter, remote, docsets, theme, highlighter, slug, docsetPath, docsetName,
                   documents, processedDocuments, parsedDocuments, dirs, files, task,
                   running, queue, callsLeft, accessOrder>>

SpecTable == InitTable /\ [][RestructureTable]_vars

----------------------------------------------------------------------------
(* Loads that are not forced, one after the other, with both doc sets on disk *)

InitReload ==
    /\ highlighter = None
    /\ slug = ""
    /\ docsetPath = ""
    /\ docsetName = ""
    /\ reporter = None
    /\ documents = EmptyMap
    /\ processedDocuments = {}
    /\ parsedDocuments = <<>>
    /\ dirs = Slugs
    /\ files = StoreUnion(JsStore, RustStore)
    /\ task = [t \in Slugs |-> IdleTask]
    /\ running = Nobody
    /\ queue = <<>>
    /\ accessOrder = <<>>
    /\ InitAdapter
    /\ left = NoBudget
    /\ theme = "Default Dark+"
    /\ callsLeft = MaxLoads
    /\ docsets = Slugs
    /\ remote = [javascript |-> JsPlain, rust |-> RustSmall]
    /\ probe = [path |-> <<>>, out |-> None]

NextReload ==
    \/ \E order \in Orders(docsets) : Load(order, FALSE)
    \/ LoadDownloaded
    \/ LoadRead
    \/ \E t \in Slugs :
        \/ StartDownload(t)
        \/ InitHighlighterDone(t)
        \/ Begin(t)

SpecReload == InitReload /\ [][NextReload]_vars

----------------------------------------------------------------------------
(* The icon and the label of an item, on every type of a bounded length *)

\* Pieces of the type of an entry: the three words in several spellings,
\* other words, and a suffix
TypeTokens == {"Array", "ARRAY", "array", "Collection", "container", "Method", "Typed", "s"}

Types == UNION {[1..n -> TypeTokens] : n \in 0..MaxTypeLen}

InitIcon ==
    /\ InitDownloader
    /\ InitAdapter
    /\ left = NoBudget
    /\ theme = "Default Dark+"
    /\ callsLeft = MaxCalls
    /\ docsets = {}
    /\ remote = [javascript |-> JsExample, rust |-> RustSmall]
    /\ probe \in {[name |-> name, type |-> type, out |-> None] :
                    name \in {"at", "Vec"}, type \in Types}

\* The label _processEntry gives the item of the entry
LabelEntry ==
    /\ probe.out = None
    /\ probe' = [probe EXCEPT !.out =
                    Some(MakeItem(Entry(probe.name, <<"js/array">>, probe.type), None).label)]
    /\ UNCHANGED <<adapterVars, reporter, remote, docsets, theme, highlighter, slug, docsetPath, docsetName,
                   documents, processedDocuments, parsedDocuments, dirs, files, task,
                   running, queue, callsLeft, accessOrder>>

SpecIcon == InitIcon /\ [][LabelEntry]_vars

----------------------------------------------------------------------------
(* A download that is not forced, with one of its doc sets on disk *)

\* One of the two doc sets has been persisted by an earlier session
InitSkip ==
    /\ highlighter = None
    /\ slug = ""
    /\ docsetPath = ""
    /\ docsetName = ""
    /\ reporter = None
    /\ documents = EmptyMap
    /\ processedDocuments = {}
    /\ parsedDocuments = <<>>
    /\ \E present \in Slugs :
        /\ dirs = {present}
        /\ files = IF present = "javascript" THEN JsStore ELSE RustStore
    /\ task = [t \in Slugs |-> IdleTask]
    /\ running = Nobody
    /\ queue = <<>>
    /\ accessOrder = <<>>
    /\ InitAdapter
    /\ left = NoBudget
    /\ theme = "Default Dark+"
    /\ callsLeft = MaxCalls
    /\ docsets = Slugs
    /\ remote = [javascript |-> JsPlain, rust |-> RustSmall]
    /\ probe = [path |-> <<>>, out |-> None]

NextSkip ==
    \/ \E order \in Orders(docsets) : Download(order, FALSE)
    \/ \E t \in Slugs :
        \/ StartDownload(t)
        \/ InitHighlighterDone(t)
        \/ Begin(t)
        \/ FetchResponse(t)
        \/ BodyEnd(t)
        \/ ExtractEntry(t)
        \/ ExtractFinish(t)
        \/ Manifests(t)
        \/ Mkdir(t)
        \/ FileDone(t)
        \/ AfterMeta(t)
        \/ ItemsWrite(t)
        \/ GetDocument(t)
        \/ ProcessDocument(t)
        \/ AfterDoc(t)

SpecSkip == InitSkip /\ [][NextSkip]_vars

----------------------------------------------------------------------------
(* The claims *)

\* The item is the one of a missing document: ~name~ and the error detail
IsMissingItem(item) ==
    /\ Len(item.name) = 3
    /\ item.name[1] = "~"
    /\ item.name[3] = "~"
    /\ item.detail.text = MissingDetail

\* The item was built from a document
IsFoundItem(item) == Len(item.name) = 1 /\ item.detail.of # None

\* Task t has handed the file named name to _writeFile and the write is pending
Writing(t, name) ==
    /\ task[t].pc \in {"mkdir", "write"}
    /\ task[t].wpath[1][2] = name

\* The step is the completion of a file write of task t
WriteStep(t) == task[t].pc = "write" /\ task'[t].pc # "write"

\* C1: every file written by the download of a slug (meta.json, items.json,
\* each transformed HTML file) is written under the store directory of that
\* slug, in every interleaving with the download of another slug.
C1_WritesUnderOwnDirectory ==
    [][\A t \in Slugs : WriteStep(t) => task[t].wpath[1][1] = t]_vars

\* C2: the items list a download hands to items.json has exactly as many
\* items as the index manifest it read has entries, and the n-th item is
\* derived from the n-th entry: its path, anchor and label are those of the
\* entry and its name is the entry's name, bare or in the missing marker.
C2_ItemsFollowManifest ==
    \A t \in Slugs :
        Writing(t, ItemsName) =>
            LET items == task[t].wcontent[1].items
                entries == task[t].entries
            IN  /\ Len(items) = Len(entries)
                /\ \A n \in 1..Len(entries) :
                    /\ n <= Len(items)
                    /\ items[n].path = EntryFile(entries[n].path)
                    /\ items[n].anchor = EntryAnchor(entries[n].path)
                    /\ items[n].label = <<Categorize(entries[n].type), " ", entries[n].name>>
                    /\ items[n].name \in {<<entries[n].name>>, <<"~", entries[n].name, "~">>}

\* C2's case: a download writes the items of a manifest of several entries,
\* one of them for a missing document
C2_Witness ==
    \E t \in Slugs :
        /\ Writing(t, ItemsName)
        /\ Len(task[t].entries) >= 3
        /\ \E n \in 1..Len(task[t].wcontent[1].items) :
                IsMissingItem(task[t].wcontent[1].items[n])

\* C3: meta.json and items.json are written only after all index entries
\* of the download have been processed, so that a download that fails or
\* stops before its last entry leaves neither of them.
C3_ManifestsWrittenAfterEntries ==
    [][\A t \in Slugs :
        (WriteStep(t) /\ task[t].wpath[1][2] \in {MetaName, ItemsName}) =>
            /\ task[t].entries # <<>>
            /\ task[t].i > Len(task[t].entries)]_vars

\* C4: when the transformer is asked for a file the extracted set lacks, it
\* returns no document and nothing is written or handed to _writeFile, the
\* item emitted for the entry has its name in the missing marker and the
\* fixed error string as its detail, and the loop goes on with the next
\* entry; the items written in the end still number the entries.
C4_MissingEntryIsMarked ==
    [][\A t \in Slugs :
        /\ (/\ running = t
            /\ task[t].pc = "process"
            /\ MapGet(documents, task[t].fileName[1]) = None)
           => /\ files' = files
              /\ dirs' = dirs
              /\ running' = t
              /\ task'[t].pc = "entry"
              /\ task'[t].entries = task[t].entries
              /\ task'[t].i = task[t].i + 1
              /\ Len(task'[t].items) = task[t].i
              /\ SubSeq(task'[t].items, 1, Len(task[t].items)) = task[t].items
              /\ IsMissingItem(task'[t].items[task[t].i])
        /\ (task'[t].pc \in {"mkdir", "write"} /\ task'[t].wpath[1][2] = ItemsName)
           => Len(task'[t].wcontent[1].items) = Len(task'[t].entries)]_vars

\* C4's case: an item in the missing marker has been emitted and the entry
\* after it has been processed too
C4_Witness ==
    \E t \in Slugs :
        /\ task[t].pc = "entry"
        /\ \E n \in 1..Len(task[t].items) :
            /\ IsMissingItem(task[t].items[n])
            /\ n < Len(task[t].items)
            /\ IsFoundItem(task[t].items[n + 1])

\* The paths _getDocument has answered from the in-memory tier or put there
\* since the last clearing of the caches
Requested == {accessOrder[n] : n \in 1..Len(accessOrder)}

\* Task t has asked _processDocument for a file the extracted set holds, or
\* _getDocument has asked the disk for it
Producing(t) ==
    \/ /\ task[t].pc = "process"
       /\ MapGet(documents, task[t].fileName[1]) # None
    \/ task[t].pc \in {"read", "afterDoc"}
    \/ task[t].pc \in {"mkdir", "write"} /\ task[t].wnext = "afterDoc"

\* C5: within one download run a present file path requested a second time
\* is answered from the in-memory tier: the transformer is not invoked for
\* it again, the disk is not read and no file is written, so that no path
\* already answered in the run is ever being produced again.
C5_SecondRequestFromMemory ==
    \A t \in Slugs : Producing(t) => task[t].fileName[1] \notin Requested

\* C6: a path that was transformed and persisted earlier in the run and is
\* no longer in the in-memory tier is a member of the processed-on-disk
\* tier, and a request for it is served by a disk read and never by the
\* transformer.
C6_EvictedIsOnDiskTier ==
    /\ \A f \in Requested :
        ~LruHas(parsedDocuments, f) => f \in processedDocuments
    /\ \A t \in Slugs :
        (task[t].pc = "process" /\ task[t].fileName[1] \in Requested) => FALSE

\* C7: the in-memory tier never holds more than Capacity entries, and it
\* holds exactly the Capacity most recently accessed paths, oldest first,
\* an answer from the tier and an insertion both counting as an access: an
\* insertion beyond the capacity evicts the least recently accessed entry.
C7_LeastRecentlyUsed ==
    /\ Len(parsedDocuments) <= Capacity
    /\ LET n == Len(accessOrder)
           kept == IF n > Capacity THEN Capacity ELSE n
       IN  /\ Len(parsedDocuments) = kept
           /\ \A k \in 1..kept :
                parsedDocuments[k].key = accessOrder[n - kept + k]

\* C7's case: an insertion went beyond the capacity after an answer from the
\* tier had made the oldest entry the most recent one, and the entry evicted
\* is the second oldest
C7_Witness ==
    /\ Len(accessOrder) > Capacity
    /\ Len(parsedDocuments) = Capacity
    /\ LruHas(parsedDocuments, PageHtml(1))
    /\ ~LruHas(parsedDocuments, PageHtml(2))

\* C8: after the colour theme changed, no download started later transforms
\* a document with the highlighter of the previous theme: every document
\* such a download produces or holds in the in-memory tier is highlighted
\* under the theme in force.
C8_ThemeChangeRebuildsHighlighter ==
    \A t \in Slugs :
        (task[t].sinceTheme /\ task[t].doc # None) =>
            task[t].doc[1].theme = ShikiTheme(theme)

\* The fragment of an entry path: what follows its first '#', if any
Fragment(entryPath) ==
    IF FirstIndex(entryPath, "#") > Len(entryPath)
    THEN None
    ELSE Some(SubSeq(entryPath, FirstIndex(entryPath, "#") + 1, Len(entryPath)))

\* C9: for every entry path the path of the item has no '#' and ends with
\* .html, and the fragment of the entry path, if any, is the anchor of the
\* item.
C9_FragmentBecomesAnchor ==
    probe.out # None =>
        LET item == probe.out[1]
        IN  /\ \A n \in 1..Len(item.path) : item.path[n] # "#"
            /\ item.path[Len(item.path)] = ".html"
            /\ item.anchor = Fragment(probe.path)


\* C10: two entries for the same file, one as F.html and one as F.html#a,
\* yield items with the same path F.html, the first with no anchor and the
\* second with anchor a.
C10_SameFileSamePath ==
    \A t \in Slugs :
        Writing(t, ItemsName) =>
            LET items == task[t].wcontent[1].items
                entries == task[t].entries
            IN  \A n, m \in 1..Len(entries) :
                    (/\ Len(entries[n].path) >= 1
                     /\ entries[n].path[Len(entries[n].path)] = ".html"
                     /\ Len(entries[m].path) = Len(entries[n].path) + 2
                     /\ SubSeq(entries[m].path, 1, Len(entries[n].path) + 1)
                            = entries[n].path \o <<"#">>)
                    => /\ items[n].path = entries[n].path
                       /\ items[m].path = entries[n].path
                       /\ items[n].anchor = None
                       /\ items[m].anchor = Some(<<entries[m].path[Len(entries[m].path)]>>)

\* The archive a holds a regular file of that normalized name and body
InArchive(a, name, body) ==
    \E n \in 1..Len(a.records) :
        /\ a.records[n].type = "file"
        /\ Normalize(a.records[n].name) = name
        /\ a.records[n].body = body

\* The download of t is past the call of fetch and has not ended
InFlight(t) == task[t].pc \notin {"idle", "start", "init", "begin", "fetch", "body"}

\* C11: the extracted-file mapping belongs to the one download in flight:
\* while slug t is extracted or indexed the mapping holds nothing but files
\* of t's archive, and once t's extraction has finished it holds all of
\* them until t ends, so that no other download has cleared it or put its
\* own files there.
C11_DocumentsOwnedByOneDownload ==
    \A t \in Slugs :
        InFlight(t) =>
            /\ \A k \in DOMAIN documents : InArchive(remote[t], k, documents[k])
            /\ task[t].pc # "extract" =>
                \A n \in 1..Len(remote[t].records) :
                    remote[t].records[n].type = "file" =>
                        Normalize(remote[t].records[n].name) \in DOMAIN documents

\* Task t hands a file to _writeFile in this step
WriteCallStep(t) == task[t].pc # "mkdir" /\ task'[t].pc = "mkdir"

\* C13: when the archive request of a slug is answered with a status that
\* is not a success, the download of that slug hands nothing to _writeFile,
\* no file is written in its store directory, and the downloads of the other
\* slugs of the call write their files in their own directories.
C13_FailedRequestPersistsNothing ==
    [][\A t \in Slugs :
        ~remote[t].ok =>
            /\ ~WriteCallStep(t)
            /\ \A u \in Slugs :
                WriteStep(u) => /\ task[u].wpath[1][1] # t
                                /\ task[u].wpath[1][1] = u]_vars

\* The archive has no regular file of that normalized name
Lacks(a, name) ==
    \A n \in 1..Len(a.records) :
        a.records[n].type = "file" => Normalize(a.records[n].name) # name

\* C14: when the archive of a slug is received and extracted and lacks
\* index.json or meta.json, the download of that slug ends before it
\* transforms a document and before it hands any file to _writeFile.
C14_NoManifestNoWrite ==
    [][\A t \in Slugs :
        (remote[t].ok /\ (Lacks(remote[t], IndexName) \/ Lacks(remote[t], MetaName))) =>
            /\ ~WriteCallStep(t)
            /\ task'[t].pc \notin {"afterMeta", "entry", "process", "afterDoc"}]_vars

\* The archive holds a record the extractor reports an error for
Malformed(a) == \E n \in 1..Len(a.records) : a.records[n].type = "bad"

\* C15: when the extractor reports an error for the archive of a slug, the
\* download of that slug is aborted: it ends, it does not stay waiting for
\* the extractor, and it hands no file (meta.json, items.json or a document)
\* to _writeFile.
C15_MalformedArchiveAborts ==
    [][\A t \in Slugs :
        Malformed(remote[t]) =>
            /\ ~WriteCallStep(t)
            /\ task'[t].pc # "stalled"]_vars

\* The load() call has come to its end by its loop: it ran through all the
\* slugs or left at a slug whose files are missing
LoadOver == load.pc \in {"done", "returned"}

\* The items the adapter holds for slug s
ItemsOf(s) == SelectSeq(adapterItems, LAMBDA item : item.slug = s)

\* C12: when a load ends, a slug of the call whose meta.json or items.json is
\* missing in the store has no manifest in the adapter and none of its
\* items, whatever an earlier load had loaded.
C12_MissingFileMeansNotLoaded ==
    [][(~LoadOver /\ LoadOver') =>
        \A n \in 1..Len(load.slugs) :
            (~Persisted(load.slugs[n]))' =>
                /\ load.slugs[n] \notin DOMAIN manifests'
                /\ ItemsOf(load.slugs[n])' = <<>>]_vars

\* C16: after a load, every slug of the call that has both files in the
\* store is loaded, its manifest and its items being those of the files,
\* also when another slug of the call has no persisted doc set.
C16_MissingSlugIsContained ==
    LoadOver =>
        \A n \in 1..Len(load.slugs) :
            Persisted(load.slugs[n]) =>
                /\ load.slugs[n] \in DOMAIN manifests
                /\ \A k \in 1..Len(files[<<load.slugs[n], ItemsName>>].items) :
                    \E j \in 1..Len(adapterItems) :
                        adapterItems[j] = files[<<load.slugs[n], ItemsName>>].items[k]

\* C17: when the download of one slug of a load has thrown and the other
\* downloads of the call have ended, every other slug of the call that got
\* its doc set persisted is loaded.
C17_ThrowIsContained ==
    (/\ load.pc \notin {"idle", "downloading", "reading"}
     /\ thrown # {}
     /\ running = Nobody
     /\ \A t \in Slugs : task[t].pc = "idle")
    => \A n \in 1..Len(load.slugs) :
            (load.slugs[n] \notin thrown /\ Persisted(load.slugs[n])) =>
                load.slugs[n] \in DOMAIN manifests

\* The step is the return of the open() call o after its last message, the
\* panel still being there
OpenCompletes(o) ==
    /\ opens[o].pc = "scroll"
    /\ opens'[o].pc = "idle"
    /\ panels[opens[o].panel].status = "live"

\* C18: every open(item) that completes has set the HTML of the panel and
\* then posted a state message with the item and then exactly one scroll
\* message, anchor with the item's anchor when the item has one and reset
\* otherwise, and nothing else.
C18_StateThenOneScroll ==
    [][\A o \in OpenIds :
        OpenCompletes(o) =>
            LET item == opens[o].item[1]
                scroll == IF item.anchor # None
                          THEN AnchorMessage(item.anchor[1])
                          ELSE ResetMessage
            IN  /\ opens[o].sent = <<"html", StateMessage(item), scroll>>
                /\ panels[opens[o].panel].html # None]_vars

\* C18's case: an open of an item with an anchor has posted its last
\* message to a panel that an open of an item without anchor had reset
C18_Witness ==
    \E o \in OpenIds :
        /\ opens[o].pc = "scroll"
        /\ opens[o].item[1].anchor # None
        /\ panels[opens[o].panel].status = "live"
        /\ \E i \in 1..Len(panels[opens[o].panel].posted) :
                panels[opens[o].panel].posted[i] = ResetMessage

\* The open() call o is made from the search command or from an open
\* message in this step and gets as far as its file read
SearchOpens(o) ==
    /\ opens[o].pc = "idle"
    /\ opens'[o].pc = "read"
    /\ opens'[o].origin \in {"search", "message"}

\* C19: every slug has at most one registered panel and that panel is live,
\* and an open for a slug that has a registered panel takes that panel: no
\* panel is created or disposed by it and the mapping and the content of
\* the panels stay as they are until the file is read.
C19_RegisteredPanelIsReused ==
    [][/\ \A s \in DOMAIN webviews' :
            /\ panels'[webviews'[s]].status = "live"
            /\ panels'[webviews'[s]].slug = s
       /\ \A o \in OpenIds :
            (SearchOpens(o) /\ opens'[o].item[1].slug \in DOMAIN webviews) =>
                /\ opens'[o].panel = webviews[opens'[o].item[1].slug]
                /\ webviews' = webviews
                /\ panels' = panels]_vars

\* C19's case: an open from the search command is reading its file for a
\* panel that was registered before and already shows a document
C19_Witness ==
    \E o \in OpenIds :
        /\ opens[o].pc = "read"
        /\ opens[o].origin = "search"
        /\ opens[o].item[1].slug \in DOMAIN webviews
        /\ webviews[opens[o].item[1].slug] = opens[o].panel
        /\ panels[opens[o].panel].html # None

\* C20: the entry of a slug leaves the slug-to-panel mapping, or changes,
\* only in the step that disposes the panel it named, and the disposal of a
\* registered panel removes its entry.
C20_DeregisteredOnlyByDispose ==
    [][/\ \A s \in DOMAIN webviews :
            (s \notin DOMAIN webviews' \/ webviews'[s] # webviews[s]) =>
                /\ panels[webviews[s]].status = "live"
                /\ panels'[webviews[s]].status = "disposed"
       /\ \A s \in DOMAIN webviews :
            (panels[webviews[s]].status = "live" /\ panels'[webviews[s]].status = "disposed")
                => s \notin DOMAIN webviews']_vars

\* C21: for an open message of a panel of slug S whose href is f, f.html,
\* f#a or f.html#a, the item handed to open() has slug S, the path
\* dirname(base) joined with f followed by one .html suffix, and the anchor
\* a, or none when href has no fragment.
C21_MessageOpensResolvedItem ==
    probe.out # None =>
        probe.out[1] = [slug |-> probe.slug,
                        anchor |-> probe.form.anchor,
                        path |-> <<Join(Dirname(probe.base), probe.form.file), ".html">>]

\* C21's case: the handler has run for a link f.html#a of a page in a
\* directory
C21_Witness ==
    /\ probe.out # None
    /\ probe.form.html
    /\ probe.form.anchor # None
    /\ Dirname(probe.base) = "js"
\* The _download tasks that have called _initHighlighter and wait for it
Initializing == {t \in Slugs : task[t].pc = "init"}

\* C22: with the theme unchanged the highlighter is initialized at most
\* once: at most one call of _initHighlighter is in flight, none is once
\* the highlighter is there, and the highlighter that is there is not
\* assigned again.
C22_HighlighterInitializedOnce ==
    [][/\ Cardinality(Initializing') <= 1
       /\ highlighter' # None => Initializing' = {}
       /\ highlighter # None => highlighter' = highlighter]_vars

\* C23: when codeToHtml throws on a code block of a document, the step of
\* _processDocument still hands the document to _writeFile under its file
\* name and the download of the slug is not rejected.
C23_HighlightFailureIsSwallowed ==
    [][\A t \in Slugs :
        (task[t].pc = "process" /\ DocumentThrows(t) /\ task'[t] # task[t]) =>
            /\ task'[t].pc = "mkdir"
            /\ task'[t].wpath[1][2] = task[t].fileName[1]
            /\ t \notin thrown']_vars

\* The files of the store directory of s are the same after the step
FilesKept(s) ==
    \A x \in DOMAIN files :
        x[1] = s => (x \in DOMAIN files' /\ files'[x] = files[x])

\* C24: in a download that is not forced, a slug that is on disk is not
\* requested and its persisted files stay as they are, whatever the
\* downloads of the other slugs of the call do.
C24_PresentSlugIsLeftAlone ==
    [][\A s \in Slugs :
        (s \in dirs /\ task[s].pc \in {"idle", "start", "init", "begin"}) =>
            /\ task'[s].pc # "fetch"
            /\ FilesKept(s)]_vars

\* The records of an archive that are regular files with the normalized
\* path name
FileRecords(recs, name) ==
    {n \in 1..Len(recs) : recs[n].type = "file" /\ Normalize(recs[n].name) = name}

\* The mapping the records of an archive stand for: every normalized path of
\* a regular file, with the body of the last record of that path
LastWins(recs) ==
    [name \in {Normalize(recs[n].name) : n \in {m \in 1..Len(recs) : recs[m].type = "file"}} |->
        recs[CHOOSE n \in FileRecords(recs, name) :
                \A m \in FileRecords(recs, name) : m <= n].body]

\* C25: when the extraction of the archive of a slug finishes, the
\* extracted-file mapping is the one its records stand for: one key per
\* normalized path of a regular file, the body of the last record of the
\* path as its value, nothing for the other records.
C25_ExtractedMappingIsLastWins ==
    [][\A t \in Slugs :
        (task[t].pc = "extract" /\ task'[t].pc = "manifests") =>
            documents' = LastWins(remote[t].records)]_vars

\* C26: a table with a thead of h rows and a tbody of b rows of n cells
\* becomes h + b grid rows in the order of the rows, each of n grid cells
\* that carry grid-column 1..n in the order of the cells; the first h rows
\* are header rows of columnheader cells, the others rows without a header
\* mark of default cells; no thead and no tbody is left.
C26_TableBecomesGridRows ==
    probe.out # None =>
        LET rows == probe.out[1]
        IN  /\ Len(rows) = probe.h + probe.b
            /\ \A r \in 1..Len(rows) :
                /\ rows[r].tag = "vscode-data-grid-row"
                /\ rows[r].rowType = IF r <= probe.h THEN Some("header") ELSE None
                /\ Len(rows[r].children) = probe.n
                /\ \A c \in 1..probe.n :
                    /\ rows[r].children[c].tag = "vscode-data-grid-cell"
                    /\ rows[r].children[c].gridColumn = Some(c)
                    /\ rows[r].children[c].text = <<r, c>>
                    /\ rows[r].children[c].cellType =
                            Some(IF r <= probe.h THEN "columnheader" ELSE "default")

\* C26's case: the table of two header rows and three data rows has been
\* restructured
C26_Witness ==
    /\ probe.out # None
    /\ probe.h = 2
    /\ probe.b = 3
    /\ probe.n = 3
    /\ Len(probe.out[1]) = 5

\* The persisted item lists of the slugs of a sequence, one after the other
RECURSIVE PersistedItems(_)
PersistedItems(slugs) ==
    IF slugs = <<>> THEN <<>>
    ELSE files[<<Head(slugs), ItemsName>>].items \o PersistedItems(Tail(slugs))

\* C27: when load(slugs) has run through its slugs, all of them on disk,
\* items() is the concatenation of their persisted item lists in the order
\* of the request and the manifests are those of the requested slugs and
\* of no other slug.
C27_LoadedIsWhatWasRequested ==
    (load.pc = "done" /\ \A n \in 1..Len(load.slugs) : Persisted(load.slugs[n])) =>
        /\ adapterItems = PersistedItems(load.slugs)
        /\ DOMAIN manifests = {load.slugs[n] : n \in 1..Len(load.slugs)}
        /\ \A s \in DOMAIN manifests : manifests[s] = files[<<s, MetaName>>]

\* C27's case: a load of rust and javascript in this order has completed
\* after an earlier load had loaded both
C27_Witness ==
    /\ load.pc = "done"
    /\ callsLeft = 0
    /\ load.slugs = <<"rust", "javascript">>
    /\ DOMAIN load.prevManifests = {"javascript", "rust"}
    /\ Len(adapterItems) = Len(JsStoredItems) + Len(RustStoredItems)

\* The type holds collection, container or array in some spelling
ArrayLike(type) ==
    \E n \in 1..Len(type) :
        type[n] \in {"Array", "ARRAY", "array", "Collection", "collection",
                     "Container", "container"}

\* C28: the label of an item is its icon, a space and the name of the
\* entry, the icon being the array icon exactly when the type of the entry
\* holds collection, container or array in any case, and the symbol icon
\* otherwise.
C28_IconFollowsType ==
    probe.out # None =>
        probe.out[1] = <<IF ArrayLike(probe.type) THEN "$(symbol-array)" ELSE "$(symbol-misc)",
                         " ", probe.name>>

\* C28's case: the label has been built for a type that holds the word in
\* upper case inside a longer word
C28_Witness ==
    /\ probe.out # None
    /\ probe.type = <<"Typed", "ARRAY">>

----------------------------------------------------------------------------
(* download() with a progress indicator for each doc set *)

InitProgress ==
    /\ InitDownloader
    /\ InitAdapter
    /\ left = NoBudget
    /\ theme = "Default Dark+"
    /\ callsLeft = MaxCalls
    /\ docsets = Slugs
    /\ remote = [javascript |-> JsPlain, rust |-> RustSmall]
    /\ probe = [path |-> <<>>, out |-> None]

\* slugs.map(doc => window.withProgress(..., progress => { this._reporter = ...;
\* return this._download(doc) })): the callbacks run in the order of slugs
NextProgress ==
    \/ \E order \in Orders(docsets) : Download(order, TRUE)
    \/ \E t \in Slugs :
        \/ WithProgress(t)
        \/ InitHighlighterDone(t)
        \/ Begin(t)
        \/ FetchResponse(t)
        \/ BodyEnd(t)
        \/ ExtractEntry(t)
        \/ ExtractFinish(t)
        \/ Manifests(t)
        \/ Mkdir(t)
        \/ FileDone(t)
        \/ AfterMeta(t)
        \/ ItemsWrite(t)
        \/ GetDocument(t)
        \/ ProcessDocument(t)
        \/ AfterDoc(t)

SpecProgress == InitProgress /\ [][NextProgress]_vars

\* this._progress('post-processing', 0.5 / entries.length) of the loop of
\* _download(t): made once, when items[i] has been assigned
PostProcessing(t) ==
    /\ task[t].pc # "idle"
    /\ task'[t].pc = "entry"
    /\ task'[t].i = task[t].i + 1

\* C29: while a slug is indexed, the one progress report of each index entry,
\* made when the entry has been processed, is delivered to the progress
\* indicator of that slug, also when several slugs are downloaded together.
C29_ReportReachesItsIndicator ==
    [][\A t \in Slugs : PostProcessing(t) => reporter = Some(t)]_vars

\* The documents the store holds, under whatever directory they were written
StoredDocuments ==
    {files[x].document : x \in {y \in DOMAIN files : files[y].kind = "html"}}

\* C30: the removal of the 'try it' section is made on every document of the
\* javascript doc set and on no document of another doc set, in downloads
\* made one after the other and in downloads made together.
C30_FixupFollowsTheDocSet ==
    \A d \in StoredDocuments : d.tryItRemoved <=> (d.src.origin = "javascript")

----------------------------------------------------------------------------
(* _processDocument and open() on the inline frames of a document, on every
   document of a bounded size.  An HTML text is a sequence of pieces: a start
   tag, an end tag or a run of characters; a node of the parsed document is
   an element with its children or a text with its one run of characters.
   The table step renames and moves elements only and is left to SpecTable *)

\* The elements a raw document is built from here: section stands for
\* section[aria-labelby="try_it"]
WrapTags == {"a", "pre", "section"}

\* Every element the parser meets
AllTags == WrapTags \cup {"iframe", "vscode-link", "code"}

Open(tag) == "<" \o tag \o ">"
Close(tag) == "</" \o tag \o ">"
IsOpen(piece) == \E tag \in AllTags : piece = Open(tag)
IsClose(piece) == \E tag \in AllTags : piece = Close(tag)
TagOf(piece) == CHOOSE tag \in AllTags : piece = Open(tag)

\* The characters of a text node as the serializer writes them, and as the
\* parser reads them: a text that spells a start tag is written with entities
Encode(chars) == IF chars = "<iframe>" THEN "&lt;iframe&gt;" ELSE chars
Decode(piece) == IF piece = "&lt;iframe&gt;" THEN "<iframe>" ELSE piece

Text(chars) == [tag |-> "#text", text |-> chars, children |-> <<>>]
El(tag, children) == [tag |-> tag, text |-> "", children |-> children]

\* cheerio(html), el.html(html): the siblings that start at piece i, up to
\* the end tag of their parent, and the index of that end tag
RECURSIVE ParseAt(_, _)
ParseAt(html, i) ==
    IF i > Len(html) \/ IsClose(html[i])
    THEN [nodes |-> <<>>, next |-> i]
    ELSE IF IsOpen(html[i])
         THEN LET inner == ParseAt(html, i + 1)
                  rest == ParseAt(html, inner.next + 1)
              IN  [nodes |-> <<El(TagOf(html[i]), inner.nodes)>> \o rest.nodes,
                   next |-> rest.next]
         ELSE LET rest == ParseAt(html, i + 1)
              IN  [nodes |-> <<Text(Decode(html[i]))>> \o rest.nodes, next |-> rest.next]

Parse(html) == ParseAt(html, 1).nodes

\* document.html()
RECURSIVE Serialize(_)
Serialize(nodes) ==
    IF nodes = <<>>
    THEN <<>>
    ELSE LET h == Head(nodes)
         IN  (IF h.tag = "#text"
              THEN <<Encode(h.text)>>
              ELSE <<Open(h.tag)>> \o Serialize(h.children) \o <<Close(h.tag)>>)
             \o Serialize(Tail(nodes))

\* A removal that would reach the children of the root only
RECURSIVE RemoveShallow(_, _)
RemoveShallow(nodes, tag) ==
    IF nodes = <<>>
    THEN <<>>
    ELSE IF Head(nodes).tag = tag
         THEN RemoveShallow(Tail(nodes), tag)
         ELSE <<Head(nodes)>> \o RemoveShallow(Tail(nodes), tag)

\* document(tag).remove(): every element of that tag, at any depth
RECURSIVE Remove(_, _)
Remove(nodes, tag) ==
    IF nodes = <<>>
    THEN <<>>
    ELSE LET h == Head(nodes)
         IN  IF h.tag = tag
             THEN Remove(Tail(nodes), tag)
             ELSE <<[h EXCEPT !.children = Remove(h.children, tag)]>> \o Remove(Tail(nodes), tag)

\* document('a').each(function () { this.tagName = 'vscode-link' })
RECURSIVE RenameLinks(_)
RenameLinks(nodes) ==
    [k \in 1..Len(nodes) |->
        [nodes[k] EXCEPT !.tag = IF @ = "a" THEN "vscode-link" ELSE @,
                         !.children = RenameLinks(@)]]

\* el.text(): the characters of the text nodes below, in document order
RECURSIVE TextOf(_)
TextOf(nodes) ==
    IF nodes = <<>>
    THEN <<>>
    ELSE LET h == Head(nodes)
         IN  (IF h.tag = "#text" THEN <<h.text>> ELSE TextOf(h.children))
             \o TextOf(Tail(nodes))

\* A highlighter that would write the code as it is
CodeToHtmlRaw(code) ==
    <<Open("pre"), Open("code")>> \o code \o <<Close("code"), Close("pre")>>

\* shiki's codeToHtml: the code inside pre.shiki and code, its characters
\* written with entities
CodeToHtml(code) ==
    <<Open("pre"), Open("code")>>
        \o [k \in 1..Len(code) |-> Encode(code[k])]
        \o <<Close("code"), Close("pre")>>

\* document('pre').each(...): each pre gets the highlighted HTML of its text
\* for children; a pre below another pre is detached by then
RECURSIVE HighlightPre(_)
HighlightPre(nodes) ==
    [k \in 1..Len(nodes) |->
        IF nodes[k].tag = "pre"
        THEN [nodes[k] EXCEPT !.children = Parse(CodeToHtml(TextOf(@)))]
        ELSE [nodes[k] EXCEPT !.children = HighlightPre(@)]]

NoncePlaceholder == "%%DEVDOCS-VSCODE-ADAPTER-NONCE%%"
ScriptPlaceholder == "%%DEVDOCS-VSCODE-ADAPTER-SCRIPT%%"

\* The HTML _processDocument hands to _writeFile for a raw document, with
\* the script link appended to the head
ProcessedHtml(raw) ==
    LET parsed == Parse(raw)
        noFrames == Remove(parsed, "iframe")
        links == RenameLinks(noFrames)
        code == HighlightPre(links)
        fixed == IF docsetName = "javascript" THEN Remove(code, "section") ELSE code
    IN  <<NoncePlaceholder, ScriptPlaceholder>> \o Serialize(fixed)

\* String.prototype.replace with a string pattern: the first occurrence
ReplaceFirst(html, pattern, by) ==
    IF \E k \in 1..Len(html) : html[k] = pattern
    THEN LET k == CHOOSE i \in 1..Len(html) :
                    html[i] = pattern /\ \A j \in 1..(i - 1) : html[j] # pattern
         IN  [html EXCEPT ![k] = by]
    ELSE html

\* The text open() assigns to panel.webview.html for a file of the store
SurfaceHtml(file) ==
    ReplaceFirst(ReplaceFirst(file, NoncePlaceholder, "M8LWX42MSEc6nq6x62bIocPNIm8BhuI8"),
                 ScriptPlaceholder, "out/webview.js")

FrameLeaves == {Text("x"), Text("<iframe>"), El("iframe", <<>>)}

\* The nodes of at most d levels of elements around a leaf
RECURSIVE FrameNodes(_)
FrameNodes(d) ==
    IF d = 0
    THEN FrameLeaves
    ELSE LET inner == FrameNodes(d - 1)
         IN  inner \cup {El(tag, <<k>>) : tag \in WrapTags, k \in inner}

FrameBodies == UNION {[1..n -> FrameNodes(MaxDepth)] : n \in 0..MaxNodes}

InitFrames ==
    /\ highlighter = None
    /\ slug = ""
    /\ docsetPath = ""
    /\ docsetName \in {"javascript", "Rust"}
    /\ reporter = None
    /\ documents = EmptyMap
    /\ processedDocuments = {}
    /\ parsedDocuments = <<>>
    /\ dirs = {}
    /\ files = EmptyMap
    /\ task = [t \in Slugs |-> IdleTask]
    /\ running = Nobody
    /\ queue = <<>>
    /\ accessOrder = <<>>
    /\ InitAdapter
    /\ left = NoBudget
    /\ theme = "Default Dark+"
    /\ callsLeft = MaxCalls
    /\ docsets = {}
    /\ remote = [javascript |-> JsExample, rust |-> RustSmall]
    /\ probe \in {[raw |-> Serialize(body), file |-> None, html |-> None] : body \in FrameBodies}

\* _processDocument on the raw document: the file it writes
ProcessFrames ==
    /\ probe.file = None
    /\ probe' = [probe EXCEPT !.file = Some(ProcessedHtml(probe.raw))]
    /\ UNCHANGED <<adapterVars, reporter, remote, docsets, theme, highlighter, slug, docsetPath, docsetName,
                   documents, processedDocuments, parsedDocuments, dirs, files, task,
                   running, queue, callsLeft, accessOrder>>

\* open() on the file written: the HTML the panel is given
OpenFrames ==
    /\ probe.file # None
    /\ probe.html = None
    /\ probe' = [probe EXCEPT !.html = Some(SurfaceHtml(probe.file[1]))]
    /\ UNCHANGED <<adapterVars, reporter, remote, docsets, theme, highlighter, slug, docsetPath, docsetName,
                   documents, processedDocuments, parsedDocuments, dirs, files, task,
                   running, queue, callsLeft, accessOrder>>

SpecFrames == InitFrames /\ [][ProcessFrames \/ OpenFrames]_vars

\* An HTML text with an iframe element in it
HasFrame(html) == \E k \in 1..Len(html) : html[k] = Open("iframe")

\* C31: no HTML that open() hands to a panel holds an iframe element: the
\* file it reads was written with every iframe removed, and neither the
\* highlighting of the code blocks nor the replacements of open() bring one
\* back.
C31_NoFrameReachesTheSurface ==
    /\ probe.file # None => ~HasFrame(probe.file[1])
    /\ probe.html # None => ~HasFrame(probe.html[1])

\* A raw document with an iframe inside a link and a code block whose text
\* spells an iframe tag has been written and opened
C31_Witness ==
    /\ probe.html # None
    /\ \E k \in 1..(Len(probe.raw) - 1) :
            probe.raw[k] = Open("a") /\ probe.raw[k + 1] = Open("iframe")
    /\ \E k \in 1..(Len(probe.raw) - 1) :
            probe.raw[k] = Open("pre") /\ probe.raw[k + 1] = "&lt;iframe&gt;"
    /\ \E k \in 1..Len(probe.html[1]) : probe.html[1][k] = "&lt;iframe&gt;"

----------------------------------------------------------------------------
(* load() calls that overlap: a load() made while the one before it is
   suspended, both doc sets on disk and no load forced *)

\* The download() of a load() call has resolved: none of the _download
\* calls it made is still running.  rerun holds the slugs a later load()
\* asked for again, whose _download of the call had returned by then
DownloadResolved(call, rerun) ==
    /\ thrown = {}
    /\ queue = <<>>
    /\ \A n \in 1..Len(call.slugs) :
            call.slugs[n] \in rerun \/ task[call.slugs[n]].pc = "idle"

\* load(slugs, force) called while the load() before it is suspended in
\* readFile or in a download() that has a _download still running, up to
\* its await of download()
LoadOverlap(order, force) ==
    /\ running = Nobody
    /\ \/ load.pc = "reading"
       \/ load.pc = "downloading" /\ ~DownloadResolved(load, {})
    /\ earlier.pc \in {"idle", "done", "returned", "rejected"}
    /\ callsLeft > 0
    /\ queue = <<>>
    /\ \A n \in 1..Len(order) : task[order[n]].pc = "idle"
    /\ earlier' = load
    /\ load' = [pc |-> "downloading", slugs |-> order, force |-> force,
                prevManifests |-> manifests, n |-> 1]
    /\ adapterItems' = <<>>
    /\ manifests' = EmptyMap
    /\ thrown' = {}
    /\ task' = [t \in Slugs |->
                    IF \E n \in 1..Len(order) : order[n] = t
                    THEN [IdleTask EXCEPT !.pc = "start", !.force = force]
                    ELSE task[t]]
    /\ running' = Head(order)
    /\ queue' = Tail(order)
    /\ callsLeft' = callsLeft - 1
    /\ UNCHANGED <<webviews, panels, opens, left,
                   reporter, remote, docsets, theme, highlighter, slug, docsetPath, docsetName,
                   documents, processedDocuments, parsedDocuments, dirs, files,
                   accessOrder, probe>>

\* download() of the load() made last resolves and the call enters its loop
LaterDownloaded ==
    /\ running = Nobody
    /\ load.pc = "downloading"
    /\ DownloadResolved(load, {})
    /\ load' = [load EXCEPT !.pc = LoadIter(1, manifests).pc]
    /\ manifests' = LoadIter(1, manifests).manifests
    /\ UNCHANGED <<thrown, adapterItems, webviews, panels, earlier, opens, left,
                   reporter, remote, docsets, theme, highlighter, slug, docsetPath, docsetName,
                   documents, processedDocuments, parsedDocuments, dirs, files, task,
                   running, queue, callsLeft, accessOrder, probe>>

\* download() of the overtaken load() resolves and the call enters its loop:
\* this._manifests is by now the map of the later call
EarlierDownloaded ==
    /\ running = Nobody
    /\ earlier.pc = "downloading"
    /\ DownloadResolved(earlier, {load.slugs[n] : n \in 1..Len(load.slugs)})
    /\ earlier' = [earlier EXCEPT !.pc = LoadIterOf(earlier, 1, manifests).pc]
    /\ manifests' = LoadIterOf(earlier, 1, manifests).manifests
    /\ UNCHANGED <<thrown, adapterItems, webviews, panels, load, opens, left,
                   reporter, remote, docsets, theme, highlighter, slug, docsetPath, docsetName,
                   documents, processedDocuments, parsedDocuments, dirs, files, task,
                   running, queue, callsLeft, accessOrder, probe>>

\* The two readFile calls of the overtaken load() resolve: the manifest is
\* set in this._manifests and the items are pushed to this._items, the map
\* and the array of the later call
EarlierRead ==
    /\ running = Nobody
    /\ earlier.pc = "reading"
    /\ Persisted(earlier.slugs[earlier.n])
    /\ LET s == earlier.slugs[earlier.n]
           read == MapSet(manifests, s, files[<<s, MetaName>>])
       IN  /\ adapterItems' = PushItems(adapterItems, files[<<s, ItemsName>>].items)
           /\ earlier' = [earlier EXCEPT !.n = @ + 1,
                                         !.pc = LoadIterOf(earlier, earlier.n + 1, read).pc]
           /\ manifests' = LoadIterOf(earlier, earlier.n + 1, read).manifests
    /\ UNCHANGED <<thrown, webviews, panels, load, opens, left,
                   reporter, remote, docsets, theme, highlighter, slug, docsetPath, docsetName,
                   documents, processedDocuments, parsedDocuments, dirs, files, task,
                   running, queue, callsLeft, accessOrder, probe>>

NextOverlap ==
    \/ \E order \in Orders(docsets) : Load(order, FALSE)
    \/ \E order \in Orders(docsets) : LoadOverlap(order, FALSE)
    \/ LaterDownloaded
    \/ LoadRead
    \/ EarlierDownloaded
    \/ EarlierRead
    \/ \E t \in Slugs :
        \/ StartDownload(t)
        \/ InitHighlighterDone(t)
        \/ Begin(t)

SpecOverlap == InitReload /\ [][NextOverlap]_vars

\* C32: when a load() call was made while the one before it was suspended
\* and both have completed, items() holds the items of the slugs of the
\* later call, each once and in the order of the request, and no item of
\* the overtaken call.
C32_LaterLoadWins ==
    (load.pc = "done" /\ earlier.pc = "done") =>
        adapterItems = PersistedItems(load.slugs)

\* C33: when open() calls for one panel overlap, every anchor or reset
\* message the document of the panel receives is that of the open() call
\* whose HTML was assigned last, and the state pushed last is that of the
\* same call: the document shown has received the state of its item and
\* then at most the scroll message of that item.
C33_ScrollBelongsToTheDocumentShown ==
    \A p \in PanelIds :
        (panels[p].status = "live" /\ panels[p].html # None) =>
            LET item == panels[p].state[1]
            IN  /\ panels[p].html[1] = files[<<item.slug, item.path>>]
                /\ panels[p].posted \in {<<StateMessage(item)>>,
                                         <<StateMessage(item), ScrollMessage(item)>>}

\* The readFile of open() call o resolves with the file: the call goes on
\* to panel.webview.html = ... and to the post of the state message
AssignsHtml(o) ==
    /\ opens[o].pc = "read"
    /\ <<opens[o].item[1].slug, opens[o].item[1].path>> \in DOMAIN files
    /\ opens'[o].pc # "read"

\* The post of the state message of open() call o resolves: the call goes
\* on to the post of its anchor or reset message
PostsScroll(o) ==
    /\ opens[o].pc = "state"
    /\ opens'[o].pc # "state"

\* C34: no content is assigned and no message is posted to a panel that has
\* been disposed, also when the user closes the panel while an open() call
\* for it is suspended in readFile or between its messages.
C34_NothingSentToDisposedPanel ==
    [][\A o \in OpenIds :
            (AssignsHtml(o) \/ PostsScroll(o)) => panels[opens[o].panel].status = "live"]_vars

\* open() has called _webview for a slug without a manifest: meta.name
\* throws and the call ends before its first await
OpenThrows ==
    /\ left'.opens = left.opens - 1
    /\ opens' = opens

\* deserializeWebviewPanel has called _webview for a slug without a
\* manifest: the panel is shown but neither registered nor opened
RestoreThrows ==
    \E p \in PanelIds :
        /\ panels[p].status = "serialized"
        /\ panels'[p].status = "live"
        /\ opens' = opens

\* C35: whenever open() or deserializeWebviewPanel() has to create or to
\* register a panel for a slug, the manifest of the slug is loaded, also
\* while a load() is in flight and for a panel restored before the first
\* load() has completed.
C35_ManifestIsThereForThePanel ==
    [][~OpenThrows /\ ~RestoreThrows]_vars

----------------------------------------------------------------------------
(* Downloads that are not forced, made again after a download that failed
   part of the way *)

InitRetry ==
    /\ InitDownloader
    /\ InitAdapter
    /\ left = NoBudget
    /\ theme = "Default Dark+"
    /\ callsLeft = MaxAttempts
    /\ docsets = Slugs
    /\ remote = [javascript |-> JsBadPre, rust |-> RustSmall]
    /\ probe = [path |-> <<>>, out |-> None]

NextRetry ==
    \/ \E order \in Orders(docsets) : Download(order, FALSE)
    \/ \E t \in Slugs :
        \/ StartDownload(t)
        \/ InitHighlighterDone(t)
        \/ Begin(t)
        \/ FetchResponse(t)
        \/ BodyEnd(t)
        \/ ExtractEntry(t)
        \/ ExtractFinish(t)
        \/ Manifests(t)
        \/ Mkdir(t)
        \/ FileDone(t)
        \/ AfterMeta(t)
        \/ ItemsWrite(t)
        \/ GetDocument(t)
        \/ ProcessDocument(t)
        \/ ProcessDocumentThrow(t)
        \/ AfterDoc(t)

SpecRetry == InitRetry /\ [][NextRetry]_vars

\* _download(t) returns at its test for a doc set already on disk
Skips(t) ==
    /\ task[t].pc = "begin"
    /\ task'[t].pc = "idle"

\* C36: a download that is not forced skips a slug only when meta.json and
\* items.json of the slug both exist: a directory that an earlier download
\* left without them is downloaded again.
C36_SkipsOnlyWhatIsPersisted ==
    [][\A t \in Slugs : Skips(t) => Persisted(t)]_vars

----------------------------------------------------------------------------
(* Downloads whose response body or archive fails, every callback that is
   ready being run in the end *)

\* The response body emits 'error' before 'end': nothing listens for it and
\* the promise that waits for 'end' stays pending
BodyError(t) ==
    /\ running = Nobody
    /\ task[t].pc = "body"
    /\ task' = [task EXCEPT ![t].pc = "stalled"]
    /\ UNCHANGED <<adapterVars, reporter, remote, docsets, theme, highlighter, slug, docsetPath, docsetName,
                   documents, processedDocuments, parsedDocuments, dirs, files,
                   running, queue, callsLeft, accessOrder, probe>>

NextStall ==
    \/ NextFail
    \/ \E t \in Slugs : BodyError(t)

\* The event loop runs every callback that is ready
SpecStall == InitFail /\ [][NextStall]_vars /\ WF_vars(NextStall)

\* A download() call is in flight: one of its _download calls has not ended
\* and none has thrown
DownloadPending == thrown = {} /\ \E t \in Slugs : task[t].pc # "idle"

\* The promise of download() is settled: a _download has thrown, or all
\* have returned
DownloadSettled == thrown # {} \/ \A t \in Slugs : task[t].pc = "idle"

\* C37: every download() call is settled in the end, whatever fetch and the
\* extraction do, also when the response body fails before its end and when
\* the extractor reports an error and does not finish.
C37_DownloadSettles == DownloadPending ~> DownloadSettled

====
